---- MODULE Spec2Model ----
(***************************************************************************)
(* Model of src/server.py: the three generation tools of NovelAIMCP        *)
(* (generate_image, generate_transparent_image, generate_image_img2img),   *)
(* their validation, prompt composition, backend reconciliation, the       *)
(* generation POST and the materialisation of the result.                  *)
(*                                                                         *)
(* Strings are sequences of tokens: f"{a}, {b}" is a \o b, '' is <<>>.     *)
(* Every await of the handlers is a point where another invocation may     *)
(* run: a request is issued by Issue(p) and completed by one of the        *)
(* response actions.                                                       *)
(***************************************************************************)
EXTENDS Integers, Sequences, FiniteSets, TLC

VARIABLES
    config,                     \* NOVELAI_CONFIG (read-only after load)
    IMAGE_PROCESSING_AVAILABLE, \* module flag set by the import block
    backend,                    \* the backend's options: checkpoint and VAE
    fs,                         \* the file system: resolved path -> bytes
    pc,                         \* where each invocation stands
    op,                         \* the tool name of each invocation
    args,                       \* the arguments dict of each invocation
    loc,                        \* the handler's local variables
    pending,                    \* the request in flight of each invocation
    http,                       \* the requests each invocation has issued
    replies,                    \* how each completed request ended, in order
    genResp,                    \* the generation response each one received
    writes,                     \* the file writes each invocation performed
    result                      \* what the handler returned (<<>>: nothing yet)

vars == <<config, IMAGE_PROCESSING_AVAILABLE, backend, fs, pc, op, args, loc,
          pending, http, replies, genResp, writes, result>>

-----------------------------------------------------------------------------
(* Bounds of the model *)

\* the side, in pixels, of the square images the backend returns
Side == 10

\* the invocations: two may be in flight together
Procs == {1, 2}

-----------------------------------------------------------------------------
(* Strings *)

WS == " "

RECURSIVE LStrip(_)
LStrip(s) == IF s # <<>> /\ Head(s) = WS THEN LStrip(Tail(s)) ELSE s

RECURSIVE RStrip(_)
RStrip(s) ==
    IF s # <<>> /\ s[Len(s)] = WS THEN RStrip(SubSeq(s, 1, Len(s) - 1)) ELSE s

\* str.strip()
Strip(s) == RStrip(LStrip(s))

\* the Python operator `s in t` on strings
IsSubstring(s, t) ==
    \E i \in 0..(Len(t) - Len(s)) : SubSeq(t, i + 1, i + Len(s)) = s

\* str.startswith
StartsWith(t, s) == Len(s) <= Len(t) /\ SubSeq(t, 1, Len(s)) = s

\* str.endswith
EndsWith(t, s) ==
    Len(s) <= Len(t) /\ SubSeq(t, Len(t) - Len(s) + 1, Len(t)) = s

\* a token occurs in a text
Contains(text, tok) == \E i \in 1..Len(text) : text[i] = tok

\* str.lower() on the tokens the model uses
LowerTok(c) == IF c = "PNG" THEN "png" ELSE IF c = "JPG" THEN "jpg" ELSE c

Lower(s) == [i \in 1..Len(s) |-> LowerTok(s[i])]

\* the index of the last "." token, 0 when there is none
LastDot(s) ==
    IF \E i \in 1..Len(s) : s[i] = "."
    THEN CHOOSE i \in 1..Len(s) :
             s[i] = "." /\ \A j \in (i + 1)..Len(s) : s[j] # "."
    ELSE 0

\* output_path.rsplit('.', 1)[0]
RsplitDotHead(s) == IF LastDot(s) = 0 THEN s ELSE SubSeq(s, 1, LastDot(s) - 1)

\* the directories above a path: its prefixes that end in "/"
Parents(path) ==
    {SubSeq(path, 1, i) : i \in {j \in 1..(Len(path) - 1) : path[j] = "/"}}

\* mutant of Falsy: the emptiness check is lost
NeverFalsy(s) == FALSE

\* `not s` for a string
Falsy(s) == s = <<>>

\* dict.get(key, default)
Get(d, k, default) == IF k \in DOMAIN d THEN d[k] ELSE default

\* the dict d without the keys outside K
Restrict(d, K) == [k \in (DOMAIN d) \cap K |-> d[k]]

\* number of requests of one kind in a log
RECURSIVE Count(_, _)
Count(log, kind) ==
    IF log = <<>> THEN 0
    ELSE (IF Head(log).kind = kind THEN 1 ELSE 0) + Count(Tail(log), kind)

-----------------------------------------------------------------------------
(* Configuration values read by the handlers (config.json) *)

HighQuality == <<"masterpiece">>
AnimeGirl == <<"anime girl">>
AnimeStyle == <<"anime style">>
NegAnime == <<"neg anime">>
RealisticStyle == <<"realistic style">>
NegRealistic == <<"neg realistic">>
FantasyCharacter == <<"fantasy character">>
ArtisticStyle == <<"artistic style">>
ModernCharacter == <<"modern character">>
NegGeneral == <<"lowres">>
DefaultSampler == <<"Euler a">>
DefaultWidth == 512
DefaultHeight == 512
DefaultSteps == 20
DefaultCfgScale == "7.5"

\* the categories of prompt_suggestions the handlers and the suggestions tool read
Categories == {"character_prompts", "style_modifiers", "negative_prompts",
               "quality_enhancers", "available_samplers"}

Styles == {"anime_character", "realistic_portrait", "fantasy_art", "modern_style"}

\* Path(__file__).parent
ScriptDir == <<"/", "srv", "/">>

\* Path.is_absolute()
IsAbsolute(path) == path # <<>> /\ Head(path) = "/"

\* mutant of Resolve: a relative path is used as given
ResolveAsGiven(path) == path

\* relative paths are anchored to the script directory
Resolve(path) == IF IsAbsolute(path) THEN path ELSE ScriptDir \o path

\* os.path.exists (the working directory is the script directory)
Exists(path) == Resolve(path) \in DOMAIN fs

-----------------------------------------------------------------------------
(* Reports: TextContent(type="text", text=...) *)

TextContent(text) == [type |-> "text", text |-> text]

ErrPromptEmpty == TextContent(<<"error: prompt must not be empty">>)
ErrOutputEmpty == TextContent(<<"error: output path must not be empty">>)
ErrInputEmpty == TextContent(<<"error: input image path must not be empty">>)
ErrInputMissing(path) ==
    TextContent(<<"error: input image file does not exist">> \o path)
ErrWidthNone == TextContent(<<"error: width must not be empty">>)
ErrHeightNone == TextContent(<<"error: height must not be empty">>)
ErrWidthRange(w) ==
    TextContent(<<"error: width must be within 64-2048", ToString(w)>>)
ErrHeightRange(h) ==
    TextContent(<<"error: height must be within 64-2048", ToString(h)>>)
ErrReadInput == TextContent(<<"reading the input image failed">>)
ErrMaskMissing(path) ==
    TextContent(<<"error: mask image file does not exist">> \o path)
ErrReadMask == TextContent(<<"reading the mask image failed">>)

\* mutant of HandlerError: the exception leaves the handler
HandlerErrorEscapes(name) == [type |-> "exception", text |-> <<name>>]

\* the report of the outer except clause of a generation handler
HandlerError(name) ==
    TextContent(<<IF name = "generate_image" THEN "error while generating"
                  ELSE IF name = "generate_transparent_image"
                  THEN "error while generating the transparent image"
                  ELSE "error while generating img2img">>)

\* the report of the except clause of an information handler
InfoError(name) == TextContent(<<"failed:", name>>)

\* an exception that leaves call_tool
Escaped(exc) == [type |-> "exception", text |-> exc]

-----------------------------------------------------------------------------
(* Images and bytes *)

\* bytes that are no image: Image.open raises on them
Garbage == [mode |-> "none", w |-> 0, h |-> 0, runs |-> <<>>]

\* what the file system holds at a directory
Dir == [mode |-> "dir", w |-> 0, h |-> 0, runs |-> <<>>]

\* Image.open succeeds
IsImage(bytes) == bytes.mode \notin {"none", "dir"}

\* base64.b64encode / base64.b64decode
B64Encode(bytes) == [b64 |-> bytes]
B64Decode(data) == data.b64

-----------------------------------------------------------------------------
(* Prompt composition *)

TransparentPrompt ==
    <<"transparent background", "alpha channel", "no background",
      "isolated object">>

TransparentNegative ==
    <<"background", "white background", "black background",
      "colored background">>

TransparentNegativeExtra == <<"gradient background", "shadow", "reflection">>

\* negative_prompt default of generate_transparent_image
TransparentDefaultNegative == TransparentNegative \o NegGeneral

\* style != "none" and style in NOVELAI_CONFIG["prompt_suggestions"]
StyleApplies(style) == style # "none" /\ style \in config.prompt_suggestions

\* the categories of prompt_suggestions a style template reads
StyleKeys(style) ==
    IF style = "anime_character"
    THEN {"character_prompts", "style_modifiers", "negative_prompts"}
    ELSE IF style = "realistic_portrait"
    THEN {"style_modifiers", "negative_prompts"}
    ELSE IF style = "fantasy_art" THEN {"character_prompts", "style_modifiers"}
    ELSE IF style = "modern_style" THEN {"character_prompts"}
    ELSE {}

\* KeyError while the arguments are read: generate_image and
\* generate_image_img2img evaluate the configured defaults whether or not
\* the argument is given, generate_transparent_image has literal defaults
ArgsKeyError(name) ==
    /\ name # "generate_transparent_image"
    /\ \/ "negative_prompts" \notin config.prompt_suggestions
       \/ "default_params" \notin config.present

\* KeyError in the style template or at the quality enhancer
ComposeKeyError(style) ==
    \/ StyleApplies(style)
       /\ ~(StyleKeys(style) \subseteq config.prompt_suggestions)
    \/ "quality_enhancers" \notin config.prompt_suggestions

\* KeyError while the generation POST is prepared: NOVELAI_CONFIG['endpoint']
\* (not read by generate_image_img2img) and NOVELAI_CONFIG["timeout"]
GenKeyError(name) ==
    \/ "timeout" \notin config.present
    \/ name # "generate_image_img2img" /\ "endpoint" \notin config.present

\* the style templates: <<prompt, negative_prompt>> after the style branch
ApplyStyle(style, prompt, negative_prompt) ==
    IF ~StyleApplies(style) THEN <<prompt, negative_prompt>>
    ELSE IF style = "anime_character"
    THEN <<AnimeStyle \o AnimeGirl \o prompt, NegAnime \o negative_prompt>>
    ELSE IF style = "realistic_portrait"
    THEN <<RealisticStyle \o prompt, NegRealistic \o negative_prompt>>
    ELSE IF style = "fantasy_art"
    THEN <<ArtisticStyle \o FantasyCharacter \o prompt, negative_prompt>>
    ELSE IF style = "modern_style"
    THEN <<ModernCharacter \o prompt, negative_prompt>>
    ELSE <<prompt, negative_prompt>>

\* the quality enhancer is prepended to the positive prompt
AddQuality(prompt) == HighQuality \o prompt

\* if not output_path.lower().endswith('.png'): rsplit('.', 1)[0] + '.png'
PngPath(output_path) ==
    IF EndsWith(Lower(output_path), <<".", "png">>) THEN output_path
    ELSE RsplitDotHead(output_path) \o <<".", "png">>

\* model_name with the default for an empty or blank argument
ResolveModel(a) ==
    LET m == Get(a, "model_name", config.default_model)
    IN  IF Falsy(m) \/ Strip(m) = <<>> THEN config.default_model ELSE m

\* mutant of VaeWanted: the VAE is posted only when the backend's differs
VaeWantedIfDifferent(vae_name) ==
    /\ vae_name # <<>> /\ vae_name # <<"None">> /\ Strip(vae_name) # <<>>
    /\ vae_name # backend.vae

\* vae_name and vae_name != "None" and vae_name.strip() != ""
VaeWanted(vae_name) ==
    vae_name # <<>> /\ vae_name # <<"None">> /\ Strip(vae_name) # <<>>

-----------------------------------------------------------------------------
(* The handlers up to their first await *)

\* a JSON argument that may be an integer or a string
IntValue(n) == [kind |-> "int", int |-> n, str |-> ""]
StrValue(t) == [kind |-> "str", int |-> 0, str |-> t]

NoLoc ==
    [prompt |-> <<>>, orig_prompt |-> <<>>, negative_prompt |-> <<>>,
     output_path |-> <<>>, model_name |-> <<>>, vae_name |-> <<>>,
     width |-> 0, height |-> 0, sampler |-> <<>>, style |-> "none",
     transparent_background |-> FALSE, input_image_path |-> <<>>,
     mask |-> FALSE, got_options |-> FALSE, current_model |-> <<>>,
     current_vae |-> <<>>, steps |-> 0, cfg_scale |-> "", input_image_bytes |-> Garbage,
     mask_image_path |-> <<>>, mask_image_bytes |-> Garbage,
     denoising_strength |-> "", resize_mode |-> IntValue(0), mask_blur |-> 0,
     inpainting_fill |-> 0, inpaint_full_res |-> FALSE,
     inpaint_full_res_padding |-> 0, inpainting_mask_invert |-> 0,
     inpainting_fill_mode |-> "", handler |-> "none", info_step |-> 0]

Returned(report) == [ret |-> <<report>>, loc |-> NoLoc, next |-> "done"]

Continue(l, next) == [ret |-> <<>>, loc |-> l, next |-> next]

\* generate_image: arguments, validation, style template, quality enhancer
GenerateImageEntry(a) ==
    LET prompt == Get(a, "prompt", <<>>)
        output_path == Get(a, "output_path", <<>>)
        model_name == ResolveModel(a)
        vae_name == Get(a, "vae_name", config.default_vae)
        negative_prompt == Get(a, "negative_prompt", NegGeneral)
        style == Get(a, "style", "none")
        styled == ApplyStyle(style, prompt, negative_prompt)
    IN  IF ArgsKeyError("generate_image")
        THEN Returned(HandlerError("generate_image"))
        ELSE IF Falsy(prompt) THEN Returned(ErrPromptEmpty)
        ELSE IF Falsy(output_path) THEN Returned(ErrOutputEmpty)
        ELSE IF ComposeKeyError(style)
        THEN Returned(HandlerError("generate_image"))
        ELSE Continue(
            [NoLoc EXCEPT
                !.prompt = AddQuality(styled[1]),
                !.orig_prompt = prompt,
                !.negative_prompt = styled[2],
                !.output_path = output_path,
                !.model_name = model_name,
                !.vae_name = vae_name,
                !.width = Get(a, "width", DefaultWidth),
                !.height = Get(a, "height", DefaultHeight),
                !.steps = Get(a, "steps", DefaultSteps),
                !.cfg_scale = Get(a, "cfg_scale", DefaultCfgScale),
                !.sampler = Get(a, "sampler", DefaultSampler),
                !.style = style,
                !.transparent_background =
                    Get(a, "transparent_background", FALSE)],
            IF VaeWanted(vae_name) THEN "vae" ELSE "get")

\* generate_transparent_image: the transparency keywords come first, then the
\* style template, then the quality enhancer
GenerateTransparentEntry(a) ==
    LET prompt == Get(a, "prompt", <<>>)
        output_path == Get(a, "output_path", <<>>)
        model_name == ResolveModel(a)
        vae_name == Get(a, "vae_name", config.default_vae)
        negative_prompt == Get(a, "negative_prompt", TransparentDefaultNegative)
        style == Get(a, "style", "none")
        optimized_prompt == TransparentPrompt \o prompt
        optimized_negative_prompt ==
            TransparentNegative \o TransparentNegativeExtra \o negative_prompt
        styled == ApplyStyle(style, optimized_prompt, optimized_negative_prompt)
    IN  IF Falsy(prompt) THEN Returned(ErrPromptEmpty)
        ELSE IF Falsy(output_path) THEN Returned(ErrOutputEmpty)
        ELSE IF ComposeKeyError(style)
        THEN Returned(HandlerError("generate_transparent_image"))
        ELSE Continue(
            [NoLoc EXCEPT
                !.prompt = AddQuality(styled[1]),
                !.orig_prompt = prompt,
                !.negative_prompt = styled[2],
                !.output_path = PngPath(output_path),
                !.model_name = model_name,
                !.vae_name = vae_name,
                !.width = Get(a, "width", 512),
                !.height = Get(a, "height", 512),
                !.steps = Get(a, "steps", 20),
                !.cfg_scale = Get(a, "cfg_scale", "7.5"),
                !.sampler = Get(a, "sampler", <<"Euler a">>),
                !.style = style,
                !.transparent_background = TRUE],
            IF VaeWanted(vae_name) THEN "vae" ELSE "get")

\* 64 <= x <= 2048
MinSize == 64
MaxSize == 2048
InRange(x) == MinSize <= x /\ x <= MaxSize

\* generate_image_img2img: validation, reading the input and the mask, style
\* template, quality enhancer
GenerateImg2ImgEntry(a) ==
    LET input_image_path == Get(a, "input_image_path", <<>>)
        prompt == Get(a, "prompt", <<>>)
        output_path == Get(a, "output_path", <<>>)
        model_name == Get(a, "model_name", config.default_model)
        vae_name == Get(a, "vae_name", config.default_vae)
        negative_prompt == Get(a, "negative_prompt", NegGeneral)
        style == Get(a, "style", "none")
        mask_image_path == Get(a, "mask_image_path", <<>>)
        styled == ApplyStyle(style, prompt, negative_prompt)
    IN  IF ArgsKeyError("generate_image_img2img")
        THEN Returned(HandlerError("generate_image_img2img"))
        ELSE IF Falsy(input_image_path) THEN Returned(ErrInputEmpty)
        ELSE IF ~Exists(input_image_path)
        THEN Returned(ErrInputMissing(input_image_path))
        ELSE IF Falsy(prompt) THEN Returned(ErrPromptEmpty)
        ELSE IF Falsy(output_path) THEN Returned(ErrOutputEmpty)
        ELSE IF "width" \notin DOMAIN a THEN Returned(ErrWidthNone)
        ELSE IF "height" \notin DOMAIN a THEN Returned(ErrHeightNone)
        ELSE IF ~InRange(a.width) THEN Returned(ErrWidthRange(a.width))
        ELSE IF ~InRange(a.height) THEN Returned(ErrHeightRange(a.height))
        ELSE IF IMAGE_PROCESSING_AVAILABLE
                /\ ~IsImage(fs[Resolve(input_image_path)])
        THEN Returned(ErrReadInput)
        ELSE IF mask_image_path # <<>> /\ ~Exists(mask_image_path)
        THEN Returned(ErrMaskMissing(mask_image_path))
        ELSE IF mask_image_path # <<>> /\ IMAGE_PROCESSING_AVAILABLE
                /\ ~IsImage(fs[Resolve(mask_image_path)])
        THEN Returned(ErrReadMask)
        ELSE IF ComposeKeyError(style)
        THEN Returned(HandlerError("generate_image_img2img"))
        ELSE Continue(
            [NoLoc EXCEPT
                !.prompt = AddQuality(styled[1]),
                !.orig_prompt = prompt,
                !.negative_prompt = styled[2],
                !.output_path = output_path,
                !.model_name = model_name,
                !.vae_name = vae_name,
                !.width = a.width,
                !.height = a.height,
                !.steps = Get(a, "steps", DefaultSteps),
                !.cfg_scale = Get(a, "cfg_scale", DefaultCfgScale),
                !.sampler = Get(a, "sampler", DefaultSampler),
                !.style = style,
                !.input_image_path = input_image_path,
                !.input_image_bytes = fs[Resolve(input_image_path)],
                !.mask = (mask_image_path # <<>>),
                !.mask_image_path = mask_image_path,
                !.mask_image_bytes =
                    IF mask_image_path # <<>>
                    THEN fs[Resolve(mask_image_path)] ELSE Garbage,
                !.denoising_strength = Get(a, "denoising_strength", "0.75"),
                !.resize_mode = Get(a, "resize_mode", IntValue(1)),
                !.mask_blur = Get(a, "mask_blur", 4),
                !.inpainting_fill = Get(a, "inpainting_fill", 1),
                !.inpaint_full_res = Get(a, "inpaint_full_res", TRUE),
                !.inpaint_full_res_padding =
                    Get(a, "inpaint_full_res_padding", 32),
                !.inpainting_mask_invert =
                    Get(a, "inpainting_mask_invert", 0),
                !.inpainting_fill_mode =
                    Get(a, "inpainting_fill_mode", "original")],
            "get")

GenerationTools ==
    {"generate_image", "generate_transparent_image", "generate_image_img2img"}

InfoTools ==
    {"get_prompt_suggestions", "get_models", "get_model_details",
     "get_model_recommendations"}

ToolNames == GenerationTools \cup InfoTools

\* get_prompt_suggestions: the categories of prompt_suggestions the answer
\* reads for a requested category
SuggestionKeys(category) ==
    {"available_samplers"}
    \cup (IF category \in {"all", "characters"}
          THEN {"character_prompts"} ELSE {})
    \cup (IF category \in {"all", "styles"} THEN {"style_modifiers"} ELSE {})
    \cup (IF category \in {"all", "negative"} THEN {"negative_prompts"} ELSE {})
    \cup (IF category \in {"all", "quality"} THEN {"quality_enhancers"} ELSE {})

SuggestionsReport(category) == TextContent(<<"prompt suggestions", category>>)

\* get_prompt_suggestions: no request is made
GetPromptSuggestionsEntry(a) ==
    LET category == Get(a, "category", "all")
    IN  IF SuggestionKeys(category) \subseteq config.prompt_suggestions
        THEN Returned(SuggestionsReport(category))
        ELSE Returned(InfoError("get_prompt_suggestions"))

\* get_models, get_model_details, get_model_recommendations: the handler
\* runs up to its first GET
InfoEntry(a) == Continue([NoLoc EXCEPT !.info_step = 1], "info")

\* the handler that call_tool awaited
Ran(handler, e) == [e EXCEPT !.loc.handler = handler]

\* raise ValueError(f"Unknown tool: {name}")
UnknownTool(name) ==
    [ret |-> <<Escaped(<<"ValueError", "Unknown tool:", name>>)>>,
     loc |-> NoLoc, next |-> "done"]

\* mutant of Entry: get_model_details is routed to get_models
EntryMisrouted(name, a) ==
    IF name = "generate_image"
    THEN Ran("generate_image", GenerateImageEntry(a))
    ELSE IF name = "generate_transparent_image"
    THEN Ran("generate_transparent_image", GenerateTransparentEntry(a))
    ELSE IF name = "get_prompt_suggestions"
    THEN Ran("get_prompt_suggestions", GetPromptSuggestionsEntry(a))
    ELSE IF name = "get_models" THEN Ran("get_models", InfoEntry(a))
    ELSE IF name = "get_model_details" THEN Ran("get_models", InfoEntry(a))
    ELSE IF name = "get_model_recommendations"
    THEN Ran("get_model_recommendations", InfoEntry(a))
    ELSE IF name = "generate_image_img2img"
    THEN Ran("generate_image_img2img", GenerateImg2ImgEntry(a))
    ELSE UnknownTool(name)

\* call_tool: the dispatch on the tool name
Entry(name, a) ==
    IF name = "generate_image"
    THEN Ran("generate_image", GenerateImageEntry(a))
    ELSE IF name = "generate_transparent_image"
    THEN Ran("generate_transparent_image", GenerateTransparentEntry(a))
    ELSE IF name = "get_prompt_suggestions"
    THEN Ran("get_prompt_suggestions", GetPromptSuggestionsEntry(a))
    ELSE IF name = "get_models" THEN Ran("get_models", InfoEntry(a))
    ELSE IF name = "get_model_details"
    THEN Ran("get_model_details", InfoEntry(a))
    ELSE IF name = "get_model_recommendations"
    THEN Ran("get_model_recommendations", InfoEntry(a))
    ELSE IF name = "generate_image_img2img"
    THEN Ran("generate_image_img2img", GenerateImg2ImgEntry(a))
    ELSE UnknownTool(name)

\* a tool is called: the handler runs up to its first await or returns
Call(p, name, a) ==
    /\ pc[p] = "idle"
    /\ LET e == Entry(name, a)
       IN  /\ pc' = [pc EXCEPT ![p] = e.next]
           /\ loc' = [loc EXCEPT ![p] = e.loc]
           /\ result' = [result EXCEPT ![p] = e.ret]
    /\ op' = [op EXCEPT ![p] = name]
    /\ args' = [args EXCEPT ![p] = a]
    /\ UNCHANGED <<config, IMAGE_PROCESSING_AVAILABLE, backend, fs, pending,
                   http, replies, genResp, writes>>

-----------------------------------------------------------------------------
(* Payloads *)

\* mutant of TransparentBlock: the block runs in Standard mode too
TransparentBlockAlways(l) ==
    [l EXCEPT !.output_path = PngPath(l.output_path),
              !.prompt = TransparentPrompt \o l.prompt,
              !.negative_prompt = TransparentNegative \o l.negative_prompt]

\* generate_image: the transparent_background block before the payload
TransparentBlock(l) ==
    IF l.transparent_background
    THEN [l EXCEPT !.output_path = PngPath(l.output_path),
                   !.prompt = TransparentPrompt \o l.prompt,
                   !.negative_prompt = TransparentNegative \o l.negative_prompt]
    ELSE l

\* generate_image: base_payload
BasePayload(l) ==
    [prompt |-> l.prompt, negative_prompt |-> l.negative_prompt,
     width |-> l.width, height |-> l.height, steps |-> l.steps,
     cfg_scale |-> l.cfg_scale, sampler_index |-> l.sampler,
     n_iter |-> 1, batch_size |-> 1, seed |-> -1, override_settings |-> <<>>]

\* generate_image: base_payload with the transparency fields
BaseTransparentPayload(l) ==
    [prompt |-> l.prompt, negative_prompt |-> l.negative_prompt,
     width |-> l.width, height |-> l.height, steps |-> l.steps,
     cfg_scale |-> l.cfg_scale, sampler_index |-> l.sampler,
     n_iter |-> 1, batch_size |-> 1, seed |-> -1, override_settings |-> <<>>,
     enable_hr |-> FALSE, restore_faces |-> FALSE, tiling |-> FALSE,
     eta |-> 0, s_churn |-> 0, s_tmax |-> 0, s_tmin |-> 0, s_noise |-> 1]

\* generate_transparent_image: payload
TransparentPayload(l) ==
    [prompt |-> l.prompt, negative_prompt |-> l.negative_prompt,
     width |-> l.width, height |-> l.height, steps |-> l.steps,
     cfg_scale |-> l.cfg_scale, sampler_index |-> l.sampler,
     n_iter |-> 1, batch_size |-> 1, seed |-> -1,
     enable_hr |-> FALSE, restore_faces |-> FALSE, tiling |-> FALSE,
     eta |-> 0, s_churn |-> 0, s_tmax |-> 0, s_tmin |-> 0, s_noise |-> 1,
     override_settings |->
         [sd_vae |-> <<"None">>, CLIP_stop_at_last_layers |-> 1],
     alwayson_scripts |-> [layerdiffuse |-> [args |-> <<TRUE>>]]]

\* mutant of FillModeMap: an unrecognized fill mode maps to 0
FillModeMapZero(mode) ==
    IF mode = "fill" THEN 0
    ELSE IF mode = "original" THEN 1
    ELSE IF mode = "latent_noise" THEN 2
    ELSE IF mode = "latent_nothing" THEN 3
    ELSE 0

\* fill_mode_map.get(inpainting_fill_mode, 1)
FillModeMap(mode) ==
    IF mode = "fill" THEN 0
    ELSE IF mode = "original" THEN 1
    ELSE IF mode = "latent_noise" THEN 2
    ELSE IF mode = "latent_nothing" THEN 3
    ELSE 1

\* generate_image_img2img: img2img_payload as it is built before the
\* reconcile block
Img2ImgBasePayload(l) ==
    [init_images |-> <<B64Encode(l.input_image_bytes)>>,
     prompt |-> l.prompt, negative_prompt |-> l.negative_prompt,
     width |-> l.width, height |-> l.height, steps |-> l.steps,
     cfg_scale |-> l.cfg_scale, sampler_index |-> l.sampler,
     denoising_strength |-> l.denoising_strength,
     resize_mode |-> l.resize_mode, mask_blur |-> l.mask_blur,
     inpainting_fill |-> l.inpainting_fill,
     inpaint_full_res |-> l.inpaint_full_res,
     inpaint_full_res_padding |-> l.inpaint_full_res_padding,
     n_iter |-> 1, batch_size |-> 1, seed |-> -1, override_settings |-> <<>>]

\* the fields a mask adds to the payload or overrides in it
MaskFields(l) ==
    [mask |-> B64Encode(l.mask_image_bytes),
     inpainting_mask_invert |-> l.inpainting_mask_invert,
     inpainting_fill |-> FillModeMap(l.inpainting_fill_mode)]

\* generate_image_img2img: img2img_payload as it is sent
Img2ImgPayload(l) ==
    IF l.mask THEN MaskFields(l) @@ Img2ImgBasePayload(l)
    ELSE Img2ImgBasePayload(l)

\* the locals as they stand when the generation POST is issued
BeforeGen(name, l) == IF name = "generate_image" THEN TransparentBlock(l) ELSE l

\* the JSON body of the generation POST
GenPayload(name, l) ==
    IF name = "generate_image"
    THEN (IF l.transparent_background
          THEN BaseTransparentPayload(l) ELSE BasePayload(l))
    ELSE IF name = "generate_transparent_image" THEN TransparentPayload(l)
    ELSE Img2ImgPayload(l)

OptionsUrl == "/sdapi/v1/options"

\* NOVELAI_CONFIG['endpoint'], and the img2img endpoint
GenUrl(name) ==
    IF name = "generate_image_img2img" THEN "/sdapi/v1/img2img"
    ELSE config.endpoint

-----------------------------------------------------------------------------
(* Requests *)

RequestPcs == {"vae", "get", "model", "vae2", "gen", "info"}

\* the GETs of the information handlers, in the order they are made
InfoUrls(handler) ==
    IF handler = "get_models"
    THEN <<"/sdapi/v1/sd-models", OptionsUrl, "/sdapi/v1/hypernetworks">>
    ELSE IF handler = "get_model_details"
    THEN <<OptionsUrl, "/sdapi/v1/system-info", "/sdapi/v1/sd-vae",
           "/controlnet/model_list">>
    ELSE <<OptionsUrl>>

\* whether the handler goes on after a GET ended this way: the first GETs
\* call raise_for_status, the optional ones sit in a try block of their
\* own, get_model_recommendations accepts any status
Tolerated(handler, step, outcome) ==
    \/ outcome = "ok"
    \/ handler = "get_models" /\ step = 3
    \/ handler = "get_model_details" /\ step > 1
    \/ handler = "get_model_recommendations" /\ outcome = "non200"

InfoReport(handler) == TextContent(<<"report of", handler>>)

\* the request an invocation sends from where it stands
RequestAt(p) ==
    IF pc[p] \in {"vae", "vae2"}
    THEN [kind |-> "POST_VAE", url |-> OptionsUrl,
          json |-> [sd_vae |-> loc[p].vae_name]]
    ELSE IF pc[p] = "get"
    THEN [kind |-> "GET_OPTIONS", url |-> OptionsUrl, json |-> <<>>]
    ELSE IF pc[p] = "model"
    THEN [kind |-> "POST_MODEL", url |-> OptionsUrl,
          json |-> [sd_model_checkpoint |-> loc[p].model_name]]
    ELSE IF pc[p] = "info"
    THEN [kind |-> "GET_INFO",
          url |-> InfoUrls(loc[p].handler)[loc[p].info_step], json |-> <<>>]
    ELSE [kind |-> "POST_GEN", url |-> GenUrl(op[p]),
          json |-> GenPayload(op[p], BeforeGen(op[p], loc[p])),
          checkpoint |-> backend.model]

\* mutant of Issue: a request waits until no other invocation is between its
\* first request and its return
IssueSerialized(p) ==
    /\ \A q \in Procs \ {p} : http[q] = <<>> \/ pc[q] = "done"
    /\ pc[p] \in RequestPcs
    /\ pending[p] = "none"
    /\ ~(pc[p] = "gen" /\ GenKeyError(op[p]))
    /\ pending' = [pending EXCEPT ![p] = RequestAt(p).kind]
    /\ http' = [http EXCEPT ![p] = Append(@, RequestAt(p))]
    /\ loc' = [loc EXCEPT ![p] =
                  IF pc[p] = "gen" THEN BeforeGen(op[p], @) ELSE @]
    /\ UNCHANGED <<config, IMAGE_PROCESSING_AVAILABLE, backend, fs, pc, op,
                   args, replies, genResp, writes, result>>

\* session.get / session.post: the request leaves, the handler is suspended
Issue(p) ==
    /\ pc[p] \in RequestPcs
    /\ pending[p] = "none"
    /\ ~(pc[p] = "gen" /\ GenKeyError(op[p]))
    /\ pending' = [pending EXCEPT ![p] = RequestAt(p).kind]
    /\ http' = [http EXCEPT ![p] = Append(@, RequestAt(p))]
    /\ loc' = [loc EXCEPT ![p] =
                  IF pc[p] = "gen" THEN BeforeGen(op[p], @) ELSE @]
    /\ UNCHANGED <<config, IMAGE_PROCESSING_AVAILABLE, backend, fs, pc, op,
                   args, replies, genResp, writes, result>>

\* the generation POST cannot be prepared: a configuration key is missing,
\* the outer except clause returns its report and no request leaves
GenAborted(p) ==
    /\ pc[p] = "gen"
    /\ pending[p] = "none"
    /\ GenKeyError(op[p])
    /\ pc' = [pc EXCEPT ![p] = "done"]
    /\ result' = [result EXCEPT ![p] = <<HandlerError(op[p])>>]
    /\ UNCHANGED <<config, IMAGE_PROCESSING_AVAILABLE, backend, fs, op, args,
                   loc, pending, http, replies, genResp, writes>>

\* how a request to the options endpoint can end
Outcomes == {"ok", "non200", "raise"}

\* a GET of an information handler completes
InfoResp(p) ==
    /\ pending[p] = "GET_INFO"
    /\ \E outcome \in Outcomes :
        /\ replies' = [replies EXCEPT ![p] = Append(@, outcome)]
        /\ IF ~Tolerated(loc[p].handler, loc[p].info_step, outcome)
           THEN /\ pc' = [pc EXCEPT ![p] = "done"]
                /\ result' = [result EXCEPT ![p] =
                                  <<InfoError(loc[p].handler)>>]
                /\ loc' = loc
           ELSE IF loc[p].info_step = Len(InfoUrls(loc[p].handler))
           THEN /\ pc' = [pc EXCEPT ![p] = "done"]
                /\ result' = [result EXCEPT ![p] =
                                  <<InfoReport(loc[p].handler)>>]
                /\ loc' = loc
           ELSE /\ loc' = [loc EXCEPT ![p].info_step = @ + 1]
                /\ UNCHANGED <<pc, result>>
    /\ pending' = [pending EXCEPT ![p] = "none"]
    /\ UNCHANGED <<config, IMAGE_PROCESSING_AVAILABLE, backend, fs, op, args,
                   http, genResp, writes>>

\* the checkpoint title the backend reports for a checkpoint name
Title(name) ==
    IF name # <<>> /\ name[Len(name)] = "[h]" THEN name ELSE name \o <<"[h]">>

\* the backend applies a posted option when it answers 200; a request that
\* raised (timeout, connection lost) may have been applied or not
Applied(outcome, applied) == outcome = "ok" \/ (outcome = "raise" /\ applied)

\* mutant of ModelMismatch: the model is never found to differ
ModelNeverMismatch(name, l, current_model) == FALSE

\* mutant of ModelMismatch: equality instead of the substring test
ModelDiffers(name, l, current_model) == l.model_name # current_model

\* model_name not in current_model (img2img: model_name and ...)
ModelMismatch(name, l, current_model) ==
    IF name = "generate_image_img2img"
    THEN ~Falsy(l.model_name) /\ ~IsSubstring(l.model_name, current_model)
    ELSE ~IsSubstring(l.model_name, current_model)

\* img2img: vae_name and vae_name != current_vae
VaeMismatch(l, current_vae) == ~Falsy(l.vae_name) /\ l.vae_name # current_vae

\* mutant of AfterVae: an exception of the VAE POST ends the handler
AfterVaeFatal(stage, outcome) ==
    IF outcome = "raise" THEN "done"
    ELSE IF stage = "vae" THEN "get" ELSE "gen"

\* where the handler goes after the VAE POST: an exception leaves the
\* reconcile try block, whose except clause only logs
AfterVae(stage, outcome) ==
    IF stage = "vae" /\ outcome # "raise" THEN "get" ELSE "gen"

\* mutant of AfterOptions: a failed options GET is tried again
AfterOptionsRetry(name, l, outcome, options) ==
    IF outcome # "ok" THEN "get"
    ELSE IF ModelMismatch(name, l, options.model) THEN "model"
    ELSE IF name = "generate_image_img2img" /\ VaeMismatch(l, options.vae)
    THEN "vae2"
    ELSE "gen"

\* where the handler goes after the options GET
AfterOptions(name, l, outcome, options) ==
    IF outcome # "ok" THEN "gen"
    ELSE IF ModelMismatch(name, l, options.model) THEN "model"
    ELSE IF name = "generate_image_img2img" /\ VaeMismatch(l, options.vae)
    THEN "vae2"
    ELSE "gen"

\* mutant of AfterModel: the options are read again after the switch
AfterModelRecheck(name, l, outcome) == "get"

\* where the handler goes after the model switch POST
AfterModel(name, l, outcome) ==
    IF name = "generate_image_img2img" /\ outcome # "raise"
       /\ VaeMismatch(l, l.current_vae)
    THEN "vae2" ELSE "gen"

\* the VAE POST completes
VaeResp(p) ==
    /\ pending[p] = "POST_VAE"
    /\ \E outcome \in Outcomes, applied \in BOOLEAN :
        /\ outcome # "raise" => applied
        /\ backend' = IF Applied(outcome, applied)
                      THEN [backend EXCEPT !.vae = loc[p].vae_name]
                      ELSE backend
        /\ pc' = [pc EXCEPT ![p] = AfterVae(pc[p], outcome)]
        /\ replies' = [replies EXCEPT ![p] = Append(@, outcome)]
    /\ pending' = [pending EXCEPT ![p] = "none"]
    /\ UNCHANGED <<config, IMAGE_PROCESSING_AVAILABLE, fs, op, args, loc,
                   http, genResp, writes, result>>

\* the options GET completes
OptionsResp(p) ==
    /\ pending[p] = "GET_OPTIONS"
    /\ \E outcome \in Outcomes :
        /\ loc' = IF outcome = "ok"
                  THEN [loc EXCEPT ![p].got_options = TRUE,
                                   ![p].current_model = backend.model,
                                   ![p].current_vae = backend.vae]
                  ELSE loc
        /\ pc' = [pc EXCEPT ![p] = AfterOptions(op[p], loc[p], outcome, backend)]
        /\ replies' = [replies EXCEPT ![p] = Append(@, outcome)]
    /\ pending' = [pending EXCEPT ![p] = "none"]
    /\ UNCHANGED <<config, IMAGE_PROCESSING_AVAILABLE, backend, fs, op, args,
                   http, genResp, writes, result>>

\* the model switch POST completes
ModelResp(p) ==
    /\ pending[p] = "POST_MODEL"
    /\ \E outcome \in Outcomes, applied \in BOOLEAN :
        /\ outcome # "raise" => applied
        /\ backend' = IF Applied(outcome, applied)
                      THEN [backend EXCEPT !.model = Title(loc[p].model_name)]
                      ELSE backend
        /\ pc' = [pc EXCEPT ![p] = AfterModel(op[p], loc[p], outcome)]
        /\ replies' = [replies EXCEPT ![p] = Append(@, outcome)]
    /\ pending' = [pending EXCEPT ![p] = "none"]
    /\ UNCHANGED <<config, IMAGE_PROCESSING_AVAILABLE, fs, op, args, loc,
                   http, genResp, writes, result>>

-----------------------------------------------------------------------------
(* Transparency processing of generate_transparent_image *)

\* an image is a sequence of runs [px |-> <<r, g, b, a>>, n |-> pixels]
Max3(px) ==
    IF px[1] >= px[2] /\ px[1] >= px[3] THEN px[1]
    ELSE IF px[2] >= px[3] THEN px[2] ELSE px[3]

Min3(px) ==
    IF px[1] <= px[2] /\ px[1] <= px[3] THEN px[1]
    ELSE IF px[2] <= px[3] THEN px[2] ELSE px[3]

\* r > 245 and g > 245 and b > 245
NearWhite(px) == px[1] > 245 /\ px[2] > 245 /\ px[3] > 245

\* max(r, g, b) - min(r, g, b) < 15 and max(r, g, b) > 235
LightGrey(px) == Max3(px) - Min3(px) < 15 /\ Max3(px) > 235

\* the alpha the synthesis gives a pixel
SynthAlpha(px) == IF NearWhite(px) \/ LightGrey(px) THEN 0 ELSE 255

\* img.convert('RGBA') followed by the per-pixel loop and putdata
Synthesize(img) ==
    [mode |-> "RGBA", w |-> img.w, h |-> img.h,
     runs |-> [i \in 1..Len(img.runs) |->
                  [px |-> <<img.runs[i].px[1], img.runs[i].px[2],
                            img.runs[i].px[3], SynthAlpha(img.runs[i].px)>>,
                   n |-> img.runs[i].n]]]

\* sum(1 for p in alpha.getdata() if p == 0)
RECURSIVE TransparentPixels(_)
TransparentPixels(runs) ==
    IF runs = <<>> THEN 0
    ELSE (IF Head(runs).px[4] = 0 THEN Head(runs).n ELSE 0)
         + TransparentPixels(Tail(runs))

\* sum(1 for p in alpha.getdata() if 0 < p < 255)
RECURSIVE SemiTransparent(_)
SemiTransparent(runs) ==
    IF runs = <<>> THEN 0
    ELSE (IF 0 < Head(runs).px[4] /\ Head(runs).px[4] < 255
          THEN Head(runs).n ELSE 0)
         + SemiTransparent(Tail(runs))

\* the number of pixels of an image
RECURSIVE Pixels(_)
Pixels(runs) == IF runs = <<>> THEN 0 ELSE Head(runs).n + Pixels(Tail(runs))

\* count / total * 100 > 5
RatioAbove5(count, total) ==
    IF total > 0 THEN count * 100 > 5 * total ELSE FALSE

\* Path.suffix: the extension of the last component
Suffix(path) ==
    LET d == LastDot(path)
    IN  IF d > 1 /\ d < Len(path) /\ path[d - 1] # "/"
           /\ \A j \in d..Len(path) : path[j] # "/"
        THEN SubSeq(path, d, Len(path)) ELSE <<>>

\* mutant of ProcessTransparency: the except clause neither rewrites the
\* file nor resets alpha_channel_detected
ProcessTransparencyNoFallback(l, image_bytes) ==
    IF IMAGE_PROCESSING_AVAILABLE
       /\ Lower(Suffix(Resolve(l.output_path))) = <<".", "png">>
    THEN IF ~IsImage(image_bytes)
         THEN [writes |-> <<image_bytes>>, detected |-> TRUE]
         ELSE IF image_bytes.mode = "RGBA"
         THEN IF l.width * l.height = 0
              THEN [writes |-> <<image_bytes>>, detected |-> TRUE]
              ELSE [writes |-> <<image_bytes>>,
                    detected |->
                        RatioAbove5(TransparentPixels(image_bytes.runs)
                                    + SemiTransparent(image_bytes.runs),
                                    l.width * l.height)]
         ELSE [writes |-> <<image_bytes, Synthesize(image_bytes)>>,
               detected |-> TRUE]
    ELSE [writes |-> <<image_bytes>>, detected |-> FALSE]

\* the inner try of generate_transparent_image: the writes it performs, in
\* order, and alpha_channel_detected
ProcessTransparency(l, image_bytes) ==
    IF IMAGE_PROCESSING_AVAILABLE
       /\ Lower(Suffix(Resolve(l.output_path))) = <<".", "png">>
    THEN IF ~IsImage(image_bytes)
         \* Image.open raises: fall back to the original bytes
         THEN [writes |-> <<image_bytes, image_bytes>>, detected |-> FALSE]
         ELSE IF image_bytes.mode = "RGBA"
         THEN IF l.width * l.height = 0
              \* the ratio divides by width * height
              THEN [writes |-> <<image_bytes, image_bytes>>,
                    detected |-> FALSE]
              ELSE [writes |-> <<image_bytes>>,
                    detected |->
                        RatioAbove5(TransparentPixels(image_bytes.runs)
                                    + SemiTransparent(image_bytes.runs),
                                    l.width * l.height)]
         \* the synthesized image is saved, then total_pixels is read before
         \* any assignment in this branch: the except clause writes the
         \* original bytes again
         ELSE [writes |-> <<image_bytes, Synthesize(image_bytes),
                            image_bytes>>,
               detected |-> FALSE]
    ELSE [writes |-> <<image_bytes>>, detected |-> FALSE]

-----------------------------------------------------------------------------
(* Reports of the generation *)

\* mutant of ApiError: the body text is dropped
ApiErrorNoBody(name, status, body) ==
    TextContent(<<"API error", ToString(status)>>)

ApiError(name, status, body) ==
    TextContent(<<IF name = "generate_image_img2img"
                  THEN "img2img API error" ELSE "API error",
                  ToString(status)>> \o body)

Malformed(name) ==
    TextContent(<<IF name = "generate_image_img2img"
                  THEN "error: img2img API response has no image data"
                  ELSE "error: API response has no image data">>)

SaveError(name) ==
    TextContent(<<IF name = "generate_image_img2img"
                  THEN "saving the img2img result failed"
                  ELSE "saving the image failed">>)

Dimensions(l) == <<ToString(l.width), "x", ToString(l.height)>>

SuccessImage(l) ==
    TextContent(<<"image generated", "path:">> \o Resolve(l.output_path)
        \o <<"model:">> \o l.model_name \o <<"sampler:">> \o l.sampler
        \o (IF l.transparent_background THEN <<"transparent: yes">> ELSE <<>>)
        \o <<"prompt:">> \o l.prompt)

SuccessTransparent(l, detected) ==
    TextContent(<<"transparent image generated", "path:">>
        \o Resolve(l.output_path)
        \o <<"model:">> \o l.model_name \o <<"sampler:">> \o l.sampler
        \o <<"size:">> \o Dimensions(l) \o <<"style:", l.style>>
        \o <<IF detected THEN "alpha: transparency detected"
             ELSE "alpha: PNG generated, check the transparency">>
        \o <<"original prompt:">> \o l.orig_prompt
        \o <<"optimized prompt:">> \o l.prompt)

\* [...][resize_mode] if resize_mode < 3 else 'unknown': comparing a string
\* with 3 raises TypeError, an index below -3 raises IndexError
ResizeModeText(resize_mode) ==
    IF resize_mode.kind = "str" THEN [raises |-> TRUE, text |-> ""]
    ELSE IF resize_mode.int >= 3 THEN [raises |-> FALSE, text |-> "unknown"]
    ELSE IF resize_mode.int < -3 THEN [raises |-> TRUE, text |-> ""]
    ELSE [raises |-> FALSE,
          text |-> <<"stretch", "crop", "fill">>[((resize_mode.int + 3) % 3) + 1]]

SuccessImg2Img(l) ==
    TextContent(<<"img2img generated", "input:">> \o l.input_image_path
        \o <<IF l.mask THEN "mode: inpaint" ELSE "mode: img2img">>
        \o <<"output:">> \o Resolve(l.output_path)
        \o <<"model:">> \o l.model_name \o <<"sampler:">> \o l.sampler
        \o <<"size:">> \o Dimensions(l) \o <<"style:", l.style>>
        \o <<"resize:", ResizeModeText(l.resize_mode).text>>
        \o <<"prompt:">> \o l.prompt)

-----------------------------------------------------------------------------
(* The generation response *)

\* what the handler does with images[0]: the writes, in order, and the report
Materialize(name, l, image_data, ioOK) ==
    LET image_bytes == B64Decode(image_data)
    IN  IF ~ioOK THEN [writes |-> <<>>, report |-> SaveError(name)]
        ELSE IF name = "generate_image"
        THEN [writes |-> <<image_bytes>>, report |-> SuccessImage(l)]
        ELSE IF name = "generate_transparent_image"
        THEN LET t == ProcessTransparency(l, image_bytes)
             IN  [writes |-> t.writes,
                  report |-> SuccessTransparent(l, t.detected)]
        \* the file is written before the report is built: an exception of
        \* the report lands in the same except clause as a failed write
        ELSE [writes |-> <<image_bytes>>,
              report |-> IF ResizeModeText(l.resize_mode).raises
                         THEN SaveError(name) ELSE SuccessImg2Img(l)]

\* mutant of HasImages: only the key is tested, not the emptiness
HasImagesKey(r) == r.json \in {"images", "empty_images"}

\* "images" in response_data and response_data["images"]
HasImages(r) == r.json = "images"

\* how the generation POST ended, as the replies record it
GenOutcome(r) ==
    IF r.status = 0 THEN "raise" ELSE IF r.status = 200 THEN "ok" ELSE "non200"

\* the handler's answer to a generation response
Answer(name, l, r, ioOK) ==
    IF r.status = 0 \/ (r.status = 200 /\ r.json = "not_json")
    THEN [writes |-> <<>>, report |-> HandlerError(name)]
    ELSE IF r.status # 200
    THEN [writes |-> <<>>, report |-> ApiError(name, r.status, r.body)]
    ELSE IF HasImages(r)
    THEN Materialize(name, l, r.image_data, ioOK)
    ELSE [writes |-> <<>>, report |-> Malformed(name)]

\* the file system after a sequence of writes to one path
RECURSIVE WriteAll(_, _, _)
WriteAll(files, path, seq) ==
    IF seq = <<>> THEN files
    ELSE WriteAll([x \in (DOMAIN files) \cup {path} |->
                      IF x = path THEN Head(seq) ELSE files[x]],
                  path, Tail(seq))

\* mutant of AfterGen: a failed generation is followed by a switch back
AfterGenRollback(r) == IF r.status # 200 THEN "model" ELSE "done"

\* where the handler goes after the generation POST: every branch returns
AfterGen(r) == "done"

\* output_path_obj.parent.mkdir(parents=True, exist_ok=True)
MkdirParents(files, path) ==
    [x \in (DOMAIN files) \cup Parents(path) |->
        IF x \in DOMAIN files THEN files[x] ELSE Dir]

\* the generation POST completes and the handler returns
GenResp(p, responses) ==
    /\ pending[p] = "POST_GEN"
    /\ \E r \in responses, ioOK \in BOOLEAN :
        /\ (r.status # 200 \/ ~HasImages(r)) => ioOK
        /\ LET ans == Answer(op[p], loc[p], r, ioOK)
           IN  /\ fs' = IF ans.writes = <<>> THEN fs
                         ELSE WriteAll(
                                  MkdirParents(fs, Resolve(loc[p].output_path)),
                                  Resolve(loc[p].output_path), ans.writes)
               /\ writes' = [writes EXCEPT ![p] = ans.writes]
               /\ result' = [result EXCEPT ![p] = <<ans.report>>]
        /\ genResp' = [genResp EXCEPT ![p] = <<r>>]
        /\ replies' = [replies EXCEPT ![p] = Append(@, GenOutcome(r))]
        /\ pc' = [pc EXCEPT ![p] = AfterGen(r)]
    /\ pending' = [pending EXCEPT ![p] = "none"]
    /\ UNCHANGED <<config, IMAGE_PROCESSING_AVAILABLE, backend, op, args, loc,
                   http>>

-----------------------------------------------------------------------------
(* The environment: configurations, backend states, files, responses *)

\* pixels
White == <<255, 255, 255, 255>>
Black == <<0, 0, 0, 255>>

\* a one-colour image of mode RGB
Plain(px, w, h) ==
    [mode |-> "RGB", w |-> w, h |-> h, runs |-> <<[px |-> px, n |-> w * h]>>]

InputPath == <<"in", ".", "png">>
BrokenPath == <<"broken", ".", "png">>
MissingPath == <<"missing", ".", "png">>
MaskPath == <<"mask", ".", "png">>
OutPath == <<"out", "/", "cat", ".", "jpg">>
AbsPath == <<"/", "abs", "/", "cat", ".", "png">>
NewPath == <<"new", "/", "d", "/", "cat", ".", "png">>
OldBytes == Plain(Black, 1, 1)

\* the files present before any invocation
InitialFs ==
    [x \in {Resolve(InputPath), Resolve(BrokenPath), Resolve(MaskPath),
             Resolve(OutPath)} \cup Parents(Resolve(OutPath)) |->
        IF x \in Parents(Resolve(OutPath)) THEN Dir
        ELSE IF x = Resolve(InputPath) THEN Plain(White, 64, 64)
        ELSE IF x = Resolve(BrokenPath) THEN Garbage
        ELSE IF x = Resolve(MaskPath) THEN Plain(Black, 64, 64)
        ELSE OldBytes]

\* a generation response
Response(status, body, json, bytes) ==
    [status |-> status, body |-> body, json |-> json,
     image_data |-> B64Encode(bytes)]

Raised == Response(0, <<>>, "none", Garbage)
Rejected == Response(500, <<"Internal Server Error">>, "none", Garbage)
NotJson == Response(200, <<>>, "not_json", Garbage)
EmptyObject == Response(200, <<>>, "no_images", Garbage)
EmptyImages == Response(200, <<>>, "empty_images", Garbage)
OneImage(bytes) == Response(200, <<>>, "images", bytes)

Responses ==
    {Raised, Rejected, NotJson, EmptyObject, EmptyImages,
     OneImage(Plain(White, 64, 64))}

ModelA == <<"a">>
ModelB == <<"b">>
ModelAB == <<"a", "b">>
VaeV == <<"v">>

\* the keys of config.json that load_config does not require
OptionalKeys == {"default_params", "endpoint", "timeout"}

\* a config.json with the optional keys `present`
ConfigWith(default_vae, keys, present) ==
    [default_model |-> ModelA, default_vae |-> default_vae,
     endpoint |-> "/sdapi/v1/txt2img", prompt_suggestions |-> keys,
     present |-> present]

\* a complete config.json
Config(default_vae, keys) == ConfigWith(default_vae, keys, OptionalKeys)

TypeOK ==
    /\ pc \in [Procs -> {"boot", "crashed", "idle", "done"} \cup RequestPcs]
    /\ pending \in [Procs -> {"none", "POST_VAE", "GET_OPTIONS", "POST_MODEL",
                              "POST_GEN", "GET_INFO"}]
    /\ \A p \in Procs : Len(result[p]) <= 1 /\ Len(genResp[p]) <= 1

\* no invocation has been made yet
Quiet ==
    /\ IMAGE_PROCESSING_AVAILABLE = TRUE
    /\ fs = InitialFs
    /\ pc = [p \in Procs |-> "idle"]
    /\ op = [p \in Procs |-> "none"]
    /\ args = [p \in Procs |-> <<>>]
    /\ loc = [p \in Procs |-> NoLoc]
    /\ pending = [p \in Procs |-> "none"]
    /\ http = [p \in Procs |-> <<>>]
    /\ replies = [p \in Procs |-> <<>>]
    /\ genResp = [p \in Procs |-> <<>>]
    /\ writes = [p \in Procs |-> <<>>]
    /\ result = [p \in Procs |-> <<>>]

-----------------------------------------------------------------------------
(* Spec: one invocation, arguments over validation and reconciliation *)

\* every dict with the required keys R and any of the optional keys of full
Dicts(full, R) ==
    {Restrict(full, K) : K \in {R \cup X : X \in SUBSET ((DOMAIN full) \ R)}}

MainArgs(name) ==
    UNION {Dicts(full, {"prompt", "output_path", "input_image_path"}
                       \cap DOMAIN full) :
        full \in
          IF name = "generate_image_img2img"
          THEN [prompt : {<<>>, <<"cat">>},
                output_path : {<<>>, OutPath},
                input_image_path : {<<>>, MissingPath, BrokenPath, InputPath},
                width : {63, 64, 2049}, height : {64, 2049},
                model_name : {<<>>, ModelB}, vae_name : {<<"None">>, VaeV}]
          ELSE [prompt : {<<>>, <<"cat">>},
                output_path : {<<>>, OutPath},
                width : {63, 64, 2049}, height : {64, 2049},
                model_name : {<<>>, ModelA, ModelB},
                vae_name : {<<"None">>, <<WS>>, VaeV}]}

Init ==
    /\ Quiet
    /\ config \in {Config(v, Categories) : v \in {<<>>, VaeV}}
    /\ backend \in [model : {<<>>, Title(ModelA), Title(ModelAB)},
                    vae : {<<"None">>, VaeV}]

MainProcs == {1}

\* the host calls a generation tool
Invoke(p) ==
    /\ pc[p] = "idle"
    /\ \E name \in GenerationTools : \E a \in MainArgs(name) :
           Call(p, name, a)

Next ==
    \E p \in MainProcs :
        \/ Invoke(p)
        \/ Issue(p)
        \/ VaeResp(p)
        \/ OptionsResp(p)
        \/ ModelResp(p)
        \/ GenResp(p, Responses)

Spec == Init /\ [][Next]_vars

-----------------------------------------------------------------------------
(* SpecCompose: one invocation, arguments over the prompt composition *)

ComposeArgs(name) ==
    UNION {Dicts(full, {"prompt", "output_path", "input_image_path", "width",
                        "height", "style"} \cap DOMAIN full) :
        full \in
          IF name = "generate_image"
          THEN [prompt : {<<"cat">>},
                output_path : {OutPath, AbsPath, NewPath},
                width : {512}, height : {512},
                style : {"none", "cyberpunk"} \cup Styles,
                negative_prompt : {<<"ugly">>},
                transparent_background : BOOLEAN]
          ELSE IF name = "generate_transparent_image"
          THEN [prompt : {<<"cat">>},
                output_path : {OutPath, AbsPath, NewPath},
                width : {512}, height : {512},
                style : {"none", "cyberpunk"} \cup Styles,
                negative_prompt : {<<"ugly">>}]
          ELSE [prompt : {<<"cat">>},
                output_path : {OutPath, AbsPath, NewPath},
                input_image_path : {InputPath},
                width : {512}, height : {512},
                style : {"none", "cyberpunk"} \cup Styles,
                negative_prompt : {<<"ugly">>}]}

ComposeResponses == {Rejected, OneImage(Plain(White, 64, 64))}

InitCompose ==
    /\ Quiet
    /\ config \in {Config(VaeV, keys) :
                      keys \in {Categories, Categories \cup Styles,
                                Categories \cup Styles \cup {"cyberpunk"}}}
    /\ backend \in [model : {Title(ModelB)}, vae : {<<"None">>}]

InvokeCompose(p) ==
    /\ pc[p] = "idle"
    /\ \E name \in GenerationTools : \E a \in ComposeArgs(name) :
           Call(p, name, a)

NextCompose ==
    \E p \in MainProcs :
        \/ InvokeCompose(p)
        \/ Issue(p)
        \/ VaeResp(p)
        \/ OptionsResp(p)
        \/ ModelResp(p)
        \/ GenResp(p, ComposeResponses)

SpecCompose == InitCompose /\ [][NextCompose]_vars

-----------------------------------------------------------------------------
(* SpecTransparent: one invocation of generate_transparent_image, over the  *)
(* images the backend may return                                            *)

LightGreyPx == <<240, 240, 236, 255>>
PinkPx == <<250, 230, 250, 255>>
ClearPx == <<0, 0, 0, 0>>
HalfPx == <<0, 0, 0, 128>>

\* an image of two runs
TwoRuns(mode, w, h, px1, n1, px2) ==
    [mode |-> mode, w |-> w, h |-> h,
     runs |-> <<[px |-> px1, n |-> n1], [px |-> px2, n |-> w * h - n1]>>]

TransparentImages ==
    {Plain(White, Side, Side), Plain(Black, Side, Side),
     Plain(LightGreyPx, Side, Side), Plain(PinkPx, Side, Side),
     TwoRuns("RGB", Side, Side, White, 5, Black),
     TwoRuns("RGB", Side, Side, White, 6, Black),
     TwoRuns("RGBA", Side, Side, ClearPx, 5, Black),
     TwoRuns("RGBA", Side, Side, ClearPx, 6, Black),
     TwoRuns("RGBA", Side, Side, HalfPx, 6, Black),
     TwoRuns("RGBA", 2 * Side, 2 * Side, ClearPx, 6, Black),
     Garbage}

TransparentResponses ==
    {Rejected, EmptyObject} \cup {OneImage(b) : b \in TransparentImages}

TransparentArgs ==
    UNION {Dicts(full, {"prompt", "output_path"}) :
        full \in [prompt : {<<"cat">>},
                  output_path : {OutPath, <<"out", ".", "PNG">>,
                                 <<"a", ".", "b", "/", "c">>, <<"cat">>},
                  width : {0, Side, 64}, height : {Side}]}

InitTransparent ==
    /\ Quiet
    /\ config \in {Config(v, Categories) : v \in {<<>>, VaeV}}
    /\ backend \in [model : {Title(ModelA), Title(ModelB)}, vae : {<<"None">>}]

InvokeTransparent(p) ==
    /\ pc[p] = "idle"
    /\ \E a \in TransparentArgs : Call(p, "generate_transparent_image", a)

NextTransparent ==
    \E p \in MainProcs :
        \/ InvokeTransparent(p)
        \/ Issue(p)
        \/ VaeResp(p)
        \/ OptionsResp(p)
        \/ ModelResp(p)
        \/ GenResp(p, TransparentResponses)

SpecTransparent == InitTransparent /\ [][NextTransparent]_vars

-----------------------------------------------------------------------------
(* SpecConcurrent: invocations in flight together, with different models    *)

ConcurrentArgs ==
    [prompt : {<<"cat">>}, output_path : {OutPath},
     model_name : {ModelA, ModelB}, vae_name : {<<"None">>, VaeV}]

ConcurrentResponses == {Rejected, OneImage(Plain(White, 64, 64))}

InitConcurrent ==
    /\ Quiet
    /\ config = Config(<<>>, Categories)
    /\ backend = [model |-> Title(ModelA), vae |-> <<"None">>]

InvokeConcurrent(p) ==
    /\ pc[p] = "idle"
    /\ \E a \in ConcurrentArgs : Call(p, "generate_image", a)

NextConcurrent ==
    \E p \in Procs :
        \/ InvokeConcurrent(p)
        \/ Issue(p)
        \/ VaeResp(p)
        \/ OptionsResp(p)
        \/ ModelResp(p)
        \/ GenResp(p, ConcurrentResponses)

SpecConcurrent == InitConcurrent /\ [][NextConcurrent]_vars

-----------------------------------------------------------------------------
(* SpecInpaint: one invocation of generate_image_img2img, with and without  *)
(* a mask                                                                   *)

FillModes == {"fill", "original", "latent_noise", "latent_nothing"}

InpaintArgs ==
    UNION {Dicts(full, {"prompt", "output_path", "input_image_path", "width",
                        "height"}) :
        full \in [prompt : {<<"cat">>}, output_path : {OutPath},
                  input_image_path : {InputPath},
                  width : {64}, height : {64},
                  mask_image_path : {<<>>, MaskPath, BrokenPath, MissingPath},
                  inpainting_fill_mode : FillModes \cup {"bogus"},
                  inpainting_fill : {0, 3},
                  inpainting_mask_invert : {1},
                  resize_mode : {StrValue("Crop and resize"), IntValue(3)}]}

InpaintResponses == {Rejected, OneImage(Plain(White, 64, 64))}

InitInpaint ==
    /\ Quiet
    /\ config \in {Config(v, Categories) : v \in {<<>>, VaeV}}
    /\ backend \in [model : {Title(ModelA), Title(ModelB)}, vae : {<<"None">>}]

InvokeInpaint(p) ==
    /\ pc[p] = "idle"
    /\ \E a \in InpaintArgs : Call(p, "generate_image_img2img", a)

NextInpaint ==
    \E p \in MainProcs :
        \/ InvokeInpaint(p)
        \/ Issue(p)
        \/ VaeResp(p)
        \/ OptionsResp(p)
        \/ ModelResp(p)
        \/ GenResp(p, InpaintResponses)

SpecInpaint == InitInpaint /\ [][NextInpaint]_vars

-----------------------------------------------------------------------------
(* SpecStartup: the module is loaded, then generate_transparent_image runs  *)

\* the interpreter starts to load the module: nothing is bound yet (the
\* flag is not read before the import block has assigned it)
InitStartup ==
    /\ IMAGE_PROCESSING_AVAILABLE = FALSE
    /\ fs = InitialFs
    /\ pc = [p \in Procs |-> "boot"]
    /\ op = [p \in Procs |-> "none"]
    /\ args = [p \in Procs |-> <<>>]
    /\ loc = [p \in Procs |-> NoLoc]
    /\ pending = [p \in Procs |-> "none"]
    /\ http = [p \in Procs |-> <<>>]
    /\ replies = [p \in Procs |-> <<>>]
    /\ genResp = [p \in Procs |-> <<>>]
    /\ writes = [p \in Procs |-> <<>>]
    /\ result = [p \in Procs |-> <<>>]
    /\ config \in {Config(v, Categories) : v \in {<<>>, VaeV}}
    /\ backend \in [model : {Title(ModelA), Title(ModelB)}, vae : {<<"None">>}]

\* the import block at the top of the module. With PIL and numpy present
\* the flag is True and the module goes on to serve. Without them the
\* except clause sets the flag to False and calls logger.warning, but
\* `logger` is only bound further down the module: NameError, the module
\* load stops and no tool is ever served.
Startup ==
    /\ \A p \in Procs : pc[p] = "boot"
    /\ \E importable \in BOOLEAN :
           /\ IMAGE_PROCESSING_AVAILABLE' = importable
           /\ pc' = [p \in Procs |-> IF importable THEN "idle" ELSE "crashed"]
    /\ UNCHANGED <<config, backend, fs, op, args, loc, pending, http, replies,
                   genResp, writes, result>>

NextStartup ==
    \/ Startup
    \/ \E p \in MainProcs :
           \/ InvokeTransparent(p)
           \/ Issue(p)
           \/ VaeResp(p)
           \/ OptionsResp(p)
           \/ ModelResp(p)
           \/ GenResp(p, TransparentResponses)

SpecStartup == InitStartup /\ [][NextStartup]_vars

-----------------------------------------------------------------------------
(* SpecTools: one call of any tool name, with incomplete configurations    *)

\* names the dispatcher does not know
UnknownNames == {"unknown_tool", ""}

ToolsArgs(name) ==
    IF name = "generate_image_img2img"
    THEN Dicts([prompt |-> <<"cat">>, output_path |-> OutPath,
                input_image_path |-> InputPath, width |-> 64, height |-> 64,
                style |-> "anime_character", vae_name |-> VaeV],
               {"output_path", "input_image_path", "width", "height"})
    ELSE IF name \in GenerationTools
    THEN Dicts([prompt |-> <<"cat">>, output_path |-> OutPath,
                style |-> "anime_character", vae_name |-> VaeV],
               {"output_path"})
    ELSE IF name = "get_prompt_suggestions"
    THEN Dicts([category |-> "all"], {})
         \cup {[category |-> c] : c \in {"negative", "samplers"}}
    ELSE {<<>>}

\* complete configurations and configurations with one key missing
ToolsConfigs ==
    {Config(<<>>, Categories)}
    \cup {ConfigWith(<<>>, Categories, OptionalKeys \ {k}) : k \in OptionalKeys}
    \cup {Config(<<>>, Categories \ {k}) :
             k \in {"quality_enhancers", "negative_prompts",
                    "character_prompts"}}

InitTools ==
    /\ Quiet
    /\ config \in ToolsConfigs
    /\ backend \in [model : {Title(ModelA), Title(ModelB)}, vae : {<<"None">>}]

\* the host calls a tool by any name
InvokeTool(p) ==
    /\ pc[p] = "idle"
    /\ \E name \in ToolNames \cup UnknownNames : \E a \in ToolsArgs(name) :
           Call(p, name, a)

NextTools ==
    \E p \in MainProcs :
        \/ InvokeTool(p)
        \/ Issue(p)
        \/ GenAborted(p)
        \/ VaeResp(p)
        \/ OptionsResp(p)
        \/ ModelResp(p)
        \/ GenResp(p, Responses)
        \/ InfoResp(p)

SpecTools == InitTools /\ [][NextTools]_vars

-----------------------------------------------------------------------------
(* Claims checked under Spec *)

Img2Img == "generate_image_img2img"

\* the arguments pass the handler's validation
ValidArgs(p) ==
    /\ op[p] \in GenerationTools
    /\ Get(args[p], "prompt", <<>>) # <<>>
    /\ Get(args[p], "output_path", <<>>) # <<>>
    /\ op[p] = Img2Img =>
        /\ Get(args[p], "input_image_path", <<>>) # <<>>
        /\ Resolve(args[p].input_image_path) \in DOMAIN InitialFs
        /\ InitialFs[Resolve(args[p].input_image_path)].mode # "none"
        /\ {"width", "height"} \subseteq DOMAIN args[p]
        /\ 64 <= args[p].width /\ args[p].width <= 2048
        /\ 64 <= args[p].height /\ args[p].height <= 2048
        /\ Get(args[p], "mask_image_path", <<>>) = <<>>

\* prompt or output_path is empty, or the img2img input is empty or missing
RequiredEmpty(p) ==
    \/ Get(args[p], "prompt", <<>>) = <<>>
    \/ Get(args[p], "output_path", <<>>) = <<>>
    \/ /\ op[p] = Img2Img
       /\ \/ Get(args[p], "input_image_path", <<>>) = <<>>
          \/ Resolve(args[p].input_image_path) \notin DOMAIN InitialFs

\* the reports of a failed validation
ValidationErrors(p) ==
    {ErrPromptEmpty, ErrOutputEmpty, ErrInputEmpty, ErrWidthNone,
     ErrHeightNone, ErrReadInput}
    \cup {ErrInputMissing(Get(args[p], "input_image_path", <<>>))}
    \cup {ErrWidthRange(w) : w \in {Get(args[p], "width", 0)}}
    \cup {ErrHeightRange(h) : h \in {Get(args[p], "height", 0)}}

Requests(p, kind) == Count(http[p], kind)

\* the generation POST of an invocation, when it has been issued
GenRequest(p) == http[p][Len(http[p])]

\* C1: an invocation of a generation tool whose prompt or output_path is
\* empty (img2img: whose input_image_path is empty or names no file) has
\* returned a text error report, has issued no HTTP request and has written
\* no file
C1_EmptyArgumentFailsFast ==
    \A p \in Procs :
        (op[p] \in GenerationTools /\ RequiredEmpty(p)) =>
            /\ pc[p] = "done"
            /\ Len(result[p]) = 1
            /\ result[p][1].type = "text"
            /\ result[p][1] \in
                   {ErrPromptEmpty, ErrOutputEmpty, ErrInputEmpty,
                    ErrInputMissing(Get(args[p], "input_image_path", <<>>))}
            /\ http[p] = <<>>
            /\ writes[p] = <<>>
            /\ fs = InitialFs

\* an img2img invocation with a prompt, whose input file does not exist, has
\* ended with the report of the missing file
C1_Witness ==
    \E p \in Procs :
        /\ op[p] = Img2Img
        /\ Get(args[p], "prompt", <<>>) # <<>>
        /\ Get(args[p], "input_image_path", <<>>) = MissingPath
        /\ result[p] = <<ErrInputMissing(MissingPath)>>

\* width or height is given and lies outside [64, 2048]
SizeOutOfRange(p) ==
    \/ "width" \in DOMAIN args[p]
           /\ ~(64 <= args[p].width /\ args[p].width <= 2048)
    \/ "height" \in DOMAIN args[p]
           /\ ~(64 <= args[p].height /\ args[p].height <= 2048)

\* C2: an invocation of a generation tool whose width or height lies outside
\* [64, 2048] has ended with a validation error report and has issued no
\* HTTP request
C2_SizeOutOfRangeFailsFast ==
    \A p \in Procs :
        (op[p] \in GenerationTools /\ SizeOutOfRange(p)) =>
            /\ pc[p] = "done"
            /\ Len(result[p]) = 1
            /\ result[p][1] \in ValidationErrors(p)
            /\ http[p] = <<>>

\* the options GET has answered 200 and the handler is past its decision
SwitchDecided(p) ==
    loc[p].got_options /\ ~(pc[p] = "model" /\ pending[p] = "none")

\* C3: an invocation issues at most one model switch POST; it issues none
\* unless the options GET reported a checkpoint, and once it has acted on the
\* report it has issued one exactly if the desired model name is not a
\* substring of the reported checkpoint string
C3_SwitchIffNotSubstring ==
    \A p \in Procs :
        op[p] \in GenerationTools =>
            /\ Requests(p, "POST_MODEL") <= 1
            /\ ~loc[p].got_options => Requests(p, "POST_MODEL") = 0
            /\ SwitchDecided(p) =>
                   (Requests(p, "POST_MODEL") = 1
                    <=> ~IsSubstring(loc[p].model_name, loc[p].current_model))

\* the desired name is a proper substring of the reported checkpoint
\* ('a' in 'a [h]'): the invocation has ended without a switch POST
C3_Witness ==
    \E p \in Procs :
        /\ pc[p] = "done"
        /\ loc[p].got_options
        /\ loc[p].model_name = ModelA
        /\ loc[p].current_model = Title(ModelA)
        /\ Requests(p, "POST_MODEL") = 0
        /\ Requests(p, "POST_GEN") = 1

\* C4: an invocation whose arguments pass validation never returns before
\* its generation POST, whatever the reconcile requests answered: once it
\* has returned it has issued the generation POST
C4_ReconcileNeverFatal ==
    \A p \in Procs :
        ValidArgs(p) =>
            /\ (pc[p] = "done" \/ result[p] # <<>>) =>
                   Requests(p, "POST_GEN") = 1
            /\ pc[p] \in RequestPcs \cup {"done"}

\* the VAE POST raised and the model switch was rejected or the options GET
\* failed, and the generation POST was issued all the same
C4_Witness ==
    \E p \in Procs :
        /\ ValidArgs(p)
        /\ pc[p] = "done"
        /\ replies[p][1] = "raise"
        /\ http[p][1].kind = "POST_VAE"
        /\ Requests(p, "POST_GEN") = 1

\* C5: when the generation POST answered a status other than 200, the
\* invocation has returned a text report that carries the status code and
\* the body text, and no file was written or changed
C5_RejectedReport ==
    \A p \in Procs :
        (genResp[p] # <<>> /\ genResp[p][1].status \notin {0, 200}) =>
            /\ pc[p] = "done"
            /\ Len(result[p]) = 1
            /\ result[p][1].type = "text"
            /\ Contains(result[p][1].text, ToString(genResp[p][1].status))
            /\ genResp[p][1].body # <<>>
            /\ IsSubstring(genResp[p][1].body, result[p][1].text)
            /\ writes[p] = <<>>
            /\ fs = InitialFs

\* the backend answered 500 to the generation POST of an invocation
C5_Witness ==
    \E p \in Procs :
        /\ genResp[p] = <<Rejected>>
        /\ pc[p] = "done"
        /\ Requests(p, "POST_GEN") = 1

\* C6: when the generation POST answered 200 with a body without 'images' or
\* with an empty 'images', the invocation has returned the malformed-response
\* report, which differs from every non-200 report, and no file was written
C6_MalformedReport ==
    \A p \in Procs :
        (/\ genResp[p] # <<>>
         /\ genResp[p][1].status = 200
         /\ genResp[p][1].json \in {"no_images", "empty_images"}) =>
            /\ pc[p] = "done"
            /\ result[p] = <<Malformed(op[p])>>
            /\ \A r \in Responses :
                   result[p][1] # ApiError(op[p], r.status, r.body)
            /\ writes[p] = <<>>
            /\ fs = InitialFs

\* the backend answered 200 with an empty 'images' array
C6_Witness ==
    \E p \in Procs :
        /\ genResp[p] = <<EmptyImages>>
        /\ pc[p] = "done"
        /\ result[p] # <<>>

\* the desired VAE is non-empty, not blank and not the literal "None"
VaeNamed(v) == v # <<>> /\ v # <<"None">> /\ Strip(v) # <<>>

OneAtATime(p) ==
    Len(http[p]) = Len(replies[p]) + (IF pending[p] = "none" THEN 0 ELSE 1)

\* the requests of an invocation follow one another in the order of `chain`,
\* each kind at most once
InOrder(p, chain) ==
    /\ \A i \in 1..Len(http[p]) :
           \E k \in 1..Len(chain) : http[p][i].kind = chain[k]
    /\ \A i, j \in 1..Len(http[p]) :
           i < j =>
               \E k, n \in 1..Len(chain) :
                   /\ k < n
                   /\ http[p][i].kind = chain[k]
                   /\ http[p][j].kind = chain[n]

C20_NoRetry ==
    \A p \in Procs :
        /\ \A kind \in {"POST_VAE", "GET_OPTIONS", "POST_MODEL", "POST_GEN"} :
               Requests(p, kind) <= 1
        /\ genResp[p] # <<>> =>
               /\ pc[p] = "done"
               /\ pending[p] = "none"
               /\ Requests(p, "POST_GEN") = 1
               /\ Len(result[p]) = 1

\* the generation POST raised (timeout or network error) after a failed
\* options GET, and the invocation returned with one request of each kind
C20_Witness ==
    \E p \in Procs :
        /\ genResp[p] = <<Raised>>
        /\ pc[p] = "done"
        /\ Requests(p, "GET_OPTIONS") = 1
        /\ replies[p][Len(replies[p]) - 1] # "ok"
        /\ Requests(p, "POST_GEN") = 1

\* a request of the given kind was answered 200 in this invocation
Completed(p, kind) ==
    \E i \in 1..Len(replies[p]) :
        http[p][i].kind = kind /\ replies[p][i] = "ok"

\* a request of the given kind was issued and did not answer 200
Failed(p, kind) ==
    \E i \in 1..Len(replies[p]) :
        http[p][i].kind = kind /\ replies[p][i] # "ok"

\* C24: no rollback: when the generation POST fails (non-200) or raises
\* (timeout, network error) after a model or VAE switch was completed in the
\* same invocation, the invocation ends with an error report, issues no
\* further HTTP call, and the backend's model or VAE stays at the switched
\* value
C24_NoRollback ==
    \A p \in Procs :
        (genResp[p] # <<>> /\ genResp[p][1].status # 200) =>
            /\ pc[p] = "done"
            /\ pending[p] = "none"
            /\ result[p] \in
                   {<<ApiError(op[p], genResp[p][1].status,
                               genResp[p][1].body)>>,
                    <<HandlerError(op[p])>>}
            /\ GenRequest(p).kind = "POST_GEN"
            /\ Len(replies[p]) = Len(http[p])
            /\ Completed(p, "POST_MODEL") =>
                   backend.model = Title(loc[p].model_name)
            /\ Completed(p, "POST_VAE") => backend.vae = loc[p].vae_name

\* the generation POST timed out after the checkpoint had been switched from
\* model a to model b: the backend still holds b
C24_Witness ==
    \E p \in Procs :
        /\ genResp[p] = <<Raised>>
        /\ Completed(p, "POST_MODEL")
        /\ loc[p].model_name = ModelB
        /\ loc[p].current_model = Title(ModelA)
        /\ backend.model = Title(ModelB)
        /\ pc[p] = "done"

\* C26: with a single invocation and no other actor, if the options GET
\* answered 200 and the model switch POST, when issued, answered 200 and was
\* applied, the backend's checkpoint string contains the desired model name
\* at the moment the generation POST is issued
C26_ModelInPlace ==
    \A p \in Procs :
        (/\ Requests(p, "POST_GEN") = 1
         /\ loc[p].got_options
         /\ Requests(p, "POST_MODEL") = 1 => Completed(p, "POST_MODEL")) =>
            IsSubstring(loc[p].model_name, GenRequest(p).checkpoint)

\* the checkpoint was switched from a to b and the generation POST went out
\* under b
C26_Witness ==
    \E p \in Procs :
        /\ Requests(p, "POST_GEN") = 1
        /\ loc[p].current_model = Title(ModelA)
        /\ loc[p].model_name = ModelB
        /\ Completed(p, "POST_MODEL")
        /\ GenRequest(p).checkpoint = Title(ModelB)

\* C27: in generate_image and generate_transparent_image a failed VAE update
\* (non-200, network error or timeout) does not prevent the model check: the
\* options GET is still issued and, when it reports a checkpoint the desired
\* model is not a substring of, the model switch POST too
C27_VaeFailureKeepsModelCheck ==
    \A p \in Procs :
        (/\ op[p] \in {"generate_image", "generate_transparent_image"}
         /\ Failed(p, "POST_VAE")
         /\ Requests(p, "POST_GEN") = 1) =>
            /\ Requests(p, "GET_OPTIONS") = 1
            /\ (/\ loc[p].got_options
                /\ ~IsSubstring(loc[p].model_name, loc[p].current_model)) =>
                   Requests(p, "POST_MODEL") = 1

\* the model_name argument is absent, empty or only whitespace
NoModelGiven(p) ==
    \/ "model_name" \notin DOMAIN args[p]
    \/ Strip(args[p].model_name) = <<>>

\* C28: in all three generation tools, when the model_name argument is
\* absent, empty or only whitespace the desired model used for the reconcile
\* and named in the report is the configuration's default_model; a non-empty
\* argument is used as given
C28_DefaultModel ==
    \A p \in Procs :
        (ValidArgs(p) /\ pc[p] \in RequestPcs \cup {"done"}) =>
            loc[p].model_name =
                IF NoModelGiven(p) THEN config.default_model
                ELSE args[p].model_name

-----------------------------------------------------------------------------
(* Claims checked under SpecTransparent *)

DetectedText == "alpha: transparency detected"

\* C7: when generate_transparent_image has saved an image that came without
\* alpha channel, the file at the output path holds the synthesized image and
\* the report says "detected" exactly if more than 5% of the pixels were made
\* transparent (all-white: 100%, detected; all-black: 0%)
C7_SynthesisKept ==
    \A p \in Procs :
        (/\ op[p] = "generate_transparent_image"
         /\ pc[p] = "done"
         /\ genResp[p] # <<>>
         /\ genResp[p][1].status = 200
         /\ genResp[p][1].json = "images"
         /\ B64Decode(genResp[p][1].image_data).mode = "RGB"
         /\ IMAGE_PROCESSING_AVAILABLE
         /\ Lower(Suffix(Resolve(loc[p].output_path))) = <<".", "png">>
         /\ writes[p] # <<>>) =>
            LET img == B64Decode(genResp[p][1].image_data)
                syn == Synthesize(img)
            IN  /\ fs[Resolve(loc[p].output_path)] = syn
                /\ Contains(result[p][1].text, DetectedText)
                   <=> TransparentPixels(syn.runs) * 100 > 5 * Pixels(img.runs)

\* generate_transparent_image has saved the image the backend returned and
\* the transparency processing ran on it
Processed(p) ==
    /\ op[p] = "generate_transparent_image"
    /\ pc[p] = "done"
    /\ genResp[p] # <<>>
    /\ genResp[p][1].status = 200
    /\ genResp[p][1].json = "images"
    /\ IMAGE_PROCESSING_AVAILABLE
    /\ Lower(Suffix(Resolve(loc[p].output_path))) = <<".", "png">>
    /\ writes[p] # <<>>

\* the decoded bytes the backend returned
ReturnedBytes(p) == B64Decode(genResp[p][1].image_data)

\* the processing fails: the bytes are no image (opening raises) or the
\* alpha analysis divides by a requested size of zero
ProcessingFails(p) ==
    \/ ~IsImage(ReturnedBytes(p))
    \/ ReturnedBytes(p).mode = "RGBA" /\ loc[p].width * loc[p].height = 0

WithPngExtension(path) ==
    IF EndsWith(Lower(path), <<".", "png">>) THEN path
    ELSE SubSeq(path, 1, Len(path) - Len(Suffix(path))) \o <<".", "png">>

\* C17: in Transparent mode the path used for writing is the requested path
\* with only its final file extension replaced by '.png' (directory and stem
\* kept, '.png' appended when the file name has no extension); a path that
\* already ends in '.png', in any case, is used unchanged
C17_ExtensionOnly ==
    \A p \in Procs :
        (/\ Requests(p, "POST_GEN") = 1
         /\ \/ op[p] = "generate_transparent_image"
            \/ op[p] = "generate_image" /\ loc[p].transparent_background) =>
            loc[p].output_path = WithPngExtension(args[p].output_path)

\* C18: when the image generate_transparent_image received has an alpha
\* channel, the file is byte-identical to the decoded bytes and transparency
\* is reported as detected exactly if more than 5% of that image's own pixels
\* have alpha below 255
C18_OwnPixelRatio ==
    \A p \in Procs :
        (Processed(p) /\ ReturnedBytes(p).mode = "RGBA") =>
            LET img == ReturnedBytes(p)
            IN  /\ fs[Resolve(loc[p].output_path)] = img
                /\ Contains(result[p][1].text, DetectedText)
                   <=> (TransparentPixels(img.runs) + SemiTransparent(img.runs))
                           * 100 > 5 * Pixels(img.runs)

-----------------------------------------------------------------------------
(* Claims checked under SpecCompose *)

\* C8: the positive prompt of every generation POST begins with the
\* quality-enhancer fragment, for every style and every mode
C8_QualityEnhancerLeftmost ==
    \A p \in Procs :
        \A i \in 1..Len(http[p]) :
            http[p][i].kind = "POST_GEN" =>
                StartsWith(http[p][i].json.prompt, HighQuality)

\* the fields of the Standard payload
StandardFields ==
    {"prompt", "negative_prompt", "width", "height", "steps", "cfg_scale",
     "sampler_index", "n_iter", "batch_size", "seed", "override_settings"}

\* the fields Transparent mode adds
TransparentFields ==
    {"enable_hr", "restore_faces", "tiling", "eta", "s_churn", "s_tmax",
     "s_tmin", "s_noise"}

\* the invocation is in Transparent mode
TransparentMode(p) ==
    \/ op[p] = "generate_transparent_image"
    \/ op[p] = "generate_image" /\ loc[p].transparent_background

\* C13: the payload sent in Standard and Transparent modes has n_iter = 1,
\* batch_size = 1, seed = -1 and an empty override_settings; in Transparent
\* mode (generate_image with transparent_background and
\* generate_transparent_image) it also has enable_hr, restore_faces and
\* tiling false, eta, s_churn, s_tmax and s_tmin 0, s_noise 1, and no field
\* beyond the listed ones
C13_PayloadFields ==
    \A p \in Procs :
        (op[p] \in {"generate_image", "generate_transparent_image"}
         /\ Requests(p, "POST_GEN") = 1) =>
            LET json == GenRequest(p).json
            IN  /\ json.n_iter = 1 /\ json.batch_size = 1 /\ json.seed = -1
                /\ DOMAIN json.override_settings = {}
                /\ IF TransparentMode(p)
                   THEN /\ DOMAIN json = StandardFields \cup TransparentFields
                        /\ ~json.enable_hr /\ ~json.restore_faces
                        /\ ~json.tiling
                        /\ json.eta = 0 /\ json.s_churn = 0
                        /\ json.s_tmax = 0 /\ json.s_tmin = 0
                        /\ json.s_noise = 1
                   ELSE StandardFields \subseteq DOMAIN json

\* C14: a successful generate_image invocation leaves the returned image at
\* the resolved output path and returns a report that contains the requested
\* dimensions as WIDTHxHEIGHT and the model name used
C14_ReportHasDimensions ==
    \A p \in Procs :
        (/\ op[p] = "generate_image"
         /\ pc[p] = "done"
         /\ genResp[p] # <<>>
         /\ genResp[p][1].status = 200
         /\ genResp[p][1].json = "images"
         /\ writes[p] # <<>>) =>
            /\ fs[Resolve(loc[p].output_path)]
                   = B64Decode(genResp[p][1].image_data)
            /\ IsSubstring(loc[p].model_name, result[p][1].text)
            /\ IsSubstring(Dimensions(loc[p]), result[p][1].text)

\* the prompt the handler sends for the same arguments with style = "none"
PromptWithoutStyle(p) ==
    LET e == Entry(op[p], [k \in DOMAIN args[p] |->
                              IF k = "style" THEN "none" ELSE args[p][k]])
    IN  GenPayload(op[p], BeforeGen(op[p], e.loc)).prompt

\* C15: with a configuration that holds the template categories
\* character_prompts, style_modifiers, negative_prompts and
\* quality_enhancers, each of the styles anime_character,
\* realistic_portrait, fantasy_art and modern_style prepends its fragments,
\* so the prompt sent to the backend differs from the one sent with
\* style = "none"
C15_StyleChangesPrompt ==
    \A p \in Procs :
        (/\ op[p] \in GenerationTools
         /\ Requests(p, "POST_GEN") = 1
         /\ Get(args[p], "style", "none") \in Styles
         /\ {"character_prompts", "style_modifiers", "negative_prompts",
             "quality_enhancers"} \subseteq config.prompt_suggestions) =>
            GenRequest(p).json.prompt # PromptWithoutStyle(p)

\* the transparency keywords the system adds to prompts
TransparencyKeywords ==
    {TransparentPrompt[i] : i \in 1..Len(TransparentPrompt)}
    \cup {TransparentNegative[i] : i \in 1..Len(TransparentNegative)}
    \cup {TransparentNegativeExtra[i] :
              i \in 1..Len(TransparentNegativeExtra)}

\* C16: in Standard mode with style "none", or with a style outside the five
\* known values, the prompt sent is exactly the quality enhancer followed by
\* the caller's prompt, and the negative prompt sent is the caller's (or the
\* default) negative prompt unchanged, with no transparency keyword
C16_StandardNoStyle ==
    \A p \in Procs :
        (/\ op[p] = "generate_image"
         /\ ~Get(args[p], "transparent_background", FALSE)
         /\ Get(args[p], "style", "none") \notin Styles
         /\ Requests(p, "POST_GEN") = 1) =>
            LET json == GenRequest(p).json
            IN  /\ json.prompt = HighQuality \o args[p].prompt
                /\ json.negative_prompt
                       = Get(args[p], "negative_prompt", NegGeneral)
                /\ \A k \in TransparencyKeywords :
                       ~Contains(json.negative_prompt, k)

\* an unknown style that is a key of prompt_suggestions went through the
\* style branch without effect
C16_Witness ==
    \E p \in Procs :
        /\ op[p] = "generate_image"
        /\ ~Get(args[p], "transparent_background", FALSE)
        /\ Get(args[p], "style", "none") = "cyberpunk"
        /\ "cyberpunk" \in config.prompt_suggestions
        /\ Requests(p, "POST_GEN") = 1
        /\ GenRequest(p).json.prompt = <<"masterpiece", "cat">>

\* the other entry point to Transparent mode
OtherEntryPoint(name) ==
    IF name = "generate_image" THEN "generate_transparent_image"
    ELSE "generate_image"

\* the same arguments as given to the other entry point
OtherEntryArgs(name, a) ==
    IF name = "generate_image"
    THEN Restrict(a, (DOMAIN a) \ {"transparent_background"})
    ELSE [k \in (DOMAIN a) \cup {"transparent_background"} |->
             IF k = "transparent_background" THEN TRUE ELSE a[k]]

\* the payload the other entry point sends for the same arguments
OtherEntryPayload(p) ==
    LET n == OtherEntryPoint(op[p])
        e == Entry(n, OtherEntryArgs(op[p], args[p]))
    IN  GenPayload(n, BeforeGen(n, e.loc))

\* C29: the two entry points to Transparent mode are equivalent towards the
\* backend: for the same prompt, negative_prompt, style, dimensions, steps,
\* cfg_scale and sampler, generate_image with transparent_background = true
\* and generate_transparent_image send the same prompt, the same negative
\* prompt and the same payload fields
C29_EntryPointsEquivalent ==
    \A p \in Procs :
        (TransparentMode(p) /\ Requests(p, "POST_GEN") = 1) =>
            LET json == GenRequest(p).json
                other == OtherEntryPayload(p)
            IN  /\ json.prompt = other.prompt
                /\ json.negative_prompt = other.negative_prompt
                /\ DOMAIN json = DOMAIN other

\* the place a requested output path stands for: an absolute path as given,
\* a relative path under the directory of the program
Anchored(path) == IF Head(path) = "/" THEN path ELSE ScriptDir \o path

\* C23: in all three generation tools the output path is resolved the same
\* way: an absolute path is used as given, a relative path is anchored to
\* the directory that contains the program, and all missing parent
\* directories exist once the file is written; nothing else is touched
C23_OutputPathResolved ==
    \A p \in Procs :
        (op[p] \in GenerationTools /\ pc[p] = "done" /\ writes[p] # <<>>) =>
            LET target == Anchored(loc[p].output_path)
            IN  /\ target \in DOMAIN fs
                /\ fs[target] = writes[p][Len(writes[p])]
                /\ \A d \in Parents(target) : d \in DOMAIN fs /\ fs[d] = Dir
                /\ \A x \in (DOMAIN fs) \ ({target} \cup Parents(target)) :
                       x \in DOMAIN InitialFs /\ fs[x] = InitialFs[x]

\* generate_image_img2img wrote to a relative path whose two parent
\* directories did not exist
C23_Witness ==
    \E p \in Procs :
        /\ op[p] = Img2Img
        /\ pc[p] = "done"
        /\ loc[p].output_path = NewPath
        /\ writes[p] # <<>>
        /\ ScriptDir \o <<"new", "/", "d", "/">> \notin DOMAIN InitialFs
        /\ ScriptDir \o <<"new", "/", "d", "/">> \in DOMAIN fs

-----------------------------------------------------------------------------
(* Claims checked under SpecConcurrent *)

\* C9: nothing holds back a request of one invocation because of where
\* another invocation stands: an invocation that has a request to send can
\* always send it, so reconcile steps and generation POSTs interleave freely
C9_NothingSerializes ==
    \A p \in Procs :
        (pc[p] \in RequestPcs /\ pending[p] = "none") => ENABLED Issue(p)

\* the generation POST of p went out while the backend's checkpoint was the
\* model of another invocation q and not p's, although every request of p's
\* own reconcile had answered 200
C9_Witness ==
    \E p \in Procs : \E q \in Procs \ {p} :
        /\ loc[p].model_name # loc[q].model_name
        /\ http[p] # <<>>
        /\ http[p][Len(http[p])].kind = "POST_GEN"
        /\ ~IsSubstring(loc[p].model_name, http[p][Len(http[p])].checkpoint)
        /\ IsSubstring(loc[q].model_name, http[p][Len(http[p])].checkpoint)
        /\ loc[p].got_options
        /\ \A j \in 1..(Len(http[p]) - 1) : replies[p][j] = "ok"

-----------------------------------------------------------------------------
(* Claims checked under SpecInpaint *)

\* C19: in generate_image_img2img, the payload of the generation POST of an
\* invocation with a mask contains 'mask' and 'inpainting_mask_invert' and
\* its 'inpainting_fill' is the number of inpainting_fill_mode under
\* {fill: 0, original: 1, latent_noise: 2, latent_nothing: 3}, 1 for any other
\* value; without a mask the payload contains neither 'mask' nor
\* 'inpainting_mask_invert' and its 'inpainting_fill' is the argument
\* inpainting_fill (default 1), whatever inpainting_fill_mode says
C19_MaskFields ==
    \A p \in Procs :
        (op[p] = Img2Img /\ Requests(p, "POST_GEN") = 1) =>
            LET json == GenRequest(p).json
                mode == Get(args[p], "inpainting_fill_mode", "original")
            IN  IF Get(args[p], "mask_image_path", <<>>) # <<>>
                THEN /\ {"mask", "inpainting_mask_invert"} \subseteq DOMAIN json
                     /\ json.mask =
                            B64Encode(InitialFs[Resolve(args[p].mask_image_path)])
                     /\ json.inpainting_mask_invert =
                            Get(args[p], "inpainting_mask_invert", 0)
                     /\ json.inpainting_fill =
                            (IF mode = "fill" THEN 0
                             ELSE IF mode = "latent_noise" THEN 2
                             ELSE IF mode = "latent_nothing" THEN 3
                             ELSE 1)
                ELSE /\ {"mask", "inpainting_mask_invert"} \cap DOMAIN json = {}
                     /\ json.inpainting_fill =
                            Get(args[p], "inpainting_fill", 1)

\* a generation POST went out with a mask and an unrecognized fill mode,
\* while the argument inpainting_fill said 3
C19_Witness ==
    \E p \in Procs :
        /\ op[p] = Img2Img
        /\ Requests(p, "POST_GEN") = 1
        /\ Get(args[p], "mask_image_path", <<>>) = MaskPath
        /\ Get(args[p], "inpainting_fill_mode", "original") = "bogus"
        /\ Get(args[p], "inpainting_fill", 1) = 3
        /\ GenRequest(p).json.inpainting_fill = 1

\* C25: in generate_image_img2img, whenever the backend answered 200 with
\* an image and the output file was written, the invocation returns the
\* success report and not a save-failure report, for every resize_mode the
\* tool schema permits (the enumerated strings and the absent default): a
\* save-failure report is returned only if the file was not written
C25_WrittenMeansSuccess ==
    \A p \in Procs :
        (/\ op[p] = Img2Img
         /\ pc[p] = "done"
         /\ genResp[p] # <<>>
         /\ genResp[p][1].status = 200
         /\ genResp[p][1].json = "images") =>
            /\ writes[p] # <<>> => result[p] = <<SuccessImg2Img(loc[p])>>
            /\ result[p] = <<SaveError(op[p])>> => writes[p] = <<>>

-----------------------------------------------------------------------------
(* Claims checked under SpecStartup *)

\* the module has been loaded, or the load has stopped
Loaded == \A p \in Procs : pc[p] # "boot"

\* C30: when the image-processing libraries cannot be imported, startup
\* continues with IMAGE_PROCESSING_AVAILABLE = FALSE instead of failing,
\* and a later generate_transparent_image invocation writes the decoded
\* backend bytes as they are and reports transparency as not detected
C30_StartupWithoutImageLibraries ==
    (Loaded /\ IMAGE_PROCESSING_AVAILABLE = FALSE) =>
        \A p \in Procs :
            /\ pc[p] # "crashed"
            /\ (pc[p] = "done" /\ writes[p] # <<>>) =>
                   /\ writes[p] = <<ReturnedBytes(p)>>
                   /\ ~Contains(result[p][1].text, DetectedText)

-----------------------------------------------------------------------------
(* Claims checked under SpecTools *)

\* the error reports a generation handler can return
GenErrorReports(name) ==
    {ErrPromptEmpty, ErrOutputEmpty, ErrInputEmpty, ErrWidthNone,
     ErrHeightNone, ErrReadInput, ErrReadMask,
     HandlerError(name), Malformed(name), SaveError(name)}
    \cup {ApiError(name, r.status, r.body) : r \in Responses}

\* the last GET of an information tool ended in a way its handler does not
\* accept
InfoFailed(p) ==
    /\ replies[p] # <<>>
    /\ LET last == replies[p][Len(replies[p])]
           n == Len(replies[p])
       IN  \/ last = "raise" /\ op[p] = "get_model_recommendations"
           \/ last # "ok" /\ op[p] = "get_models" /\ n <= 2
           \/ last # "ok" /\ op[p] = "get_model_details" /\ n = 1

\* C21: every error of a known tool's invocation (validation, network or
\* timeout, non-200, malformed response, file-write failure, missing
\* configuration key) ends the invocation with a single plain-text error
\* report; no exception leaves the handler of a known tool
C21_ErrorsAreReports ==
    \A p \in Procs :
        (op[p] \in ToolNames /\ pc[p] = "done") =>
            /\ Len(result[p]) = 1
            /\ result[p][1].type = "text"
            /\ pending[p] = "none"
            /\ (op[p] \in GenerationTools /\ writes[p] = <<>>) =>
                   result[p][1] \in GenErrorReports(op[p])
            /\ (op[p] \in GenerationTools /\ "POST_GEN" \notin
                    {http[p][i].kind : i \in 1..Len(http[p])}) =>
                   writes[p] = <<>>
            /\ (op[p] \in InfoTools /\ InfoFailed(p)) =>
                   result[p][1] = InfoError(op[p])

\* generate_image passed validation and reconciled the backend, the
\* configuration has no "timeout": the invocation ended with the handler's
\* error report and no generation POST was sent
C21_Witness ==
    \E p \in Procs :
        /\ op[p] = "generate_image"
        /\ pc[p] = "done"
        /\ "timeout" \notin config.present
        /\ Requests(p, "GET_OPTIONS") = 1
        /\ Requests(p, "POST_GEN") = 0
        /\ result[p] = <<HandlerError("generate_image")>>

\* the URLs the operation of a tool name requests
UrlsOf(name) ==
    IF name \in {"generate_image", "generate_transparent_image"}
    THEN {"/sdapi/v1/options", "/sdapi/v1/txt2img"}
    ELSE IF name = "generate_image_img2img"
    THEN {"/sdapi/v1/options", "/sdapi/v1/img2img"}
    ELSE IF name = "get_models"
    THEN {"/sdapi/v1/sd-models", "/sdapi/v1/options",
          "/sdapi/v1/hypernetworks"}
    ELSE IF name = "get_model_details"
    THEN {"/sdapi/v1/options", "/sdapi/v1/system-info", "/sdapi/v1/sd-vae",
          "/controlnet/model_list"}
    ELSE IF name = "get_model_recommendations" THEN {"/sdapi/v1/options"}
    ELSE {}

\* C22: the dispatcher routes each of the seven tool names to exactly its
\* own operation; for any other name an invalid-argument error (ValueError)
\* is raised without running any operation or issuing any HTTP call
C22_Dispatch ==
    \A p \in Procs :
        (pc[p] # "idle") =>
            IF op[p] \in ToolNames
            THEN /\ loc[p].handler = op[p]
                 /\ \A i \in 1..Len(http[p]) : http[p][i].url \in UrlsOf(op[p])
                 /\ pc[p] = "done" => result[p][1].type = "text"
            ELSE /\ pc[p] = "done"
                 /\ loc[p].handler = "none"
                 /\ http[p] = <<>>
                 /\ writes[p] = <<>>
                 /\ fs = InitialFs
                 /\ result[p] =
                        <<Escaped(<<"ValueError", "Unknown tool:", op[p]>>)>>

\* a name outside the seven was called and the call has ended
C22_Witness ==
    \E p \in Procs :
        /\ op[p] = "unknown_tool"
        /\ pc[p] = "done"
        /\ result[p][1].type = "exception"

====
